---- MODULE Spec2Model ----
(***************************************************************************)
(* VFD SWMR shadow-file coordination (src/src/H5Fvfd_swmr.c).              *)
(*                                                                         *)
(* The writer side is modelled step by step: every write to the shadow     *)
(* (metadata) file is one step, because reader processes observe the file  *)
(* between any two writes.  The page buffer (H5PB), the shadow free-space  *)
(* manager (H5MV) and the index lookup are collaborators whose code is not *)
(* in H5Fvfd_swmr.c; they are modelled from their contract.                *)
(***************************************************************************)
EXTENDS Integers, Sequences, FiniteSets, TLC

(***************************************************************************)
(* Bounds of the model.                                                    *)
(***************************************************************************)
MaxTick ==
    4
MaxLagBound ==
    2
NumPages ==
    3
MaxDirty ==
    3
MaxDelay ==
    6
MaxClock ==
    1
NumFiles ==
    2
MaxTickLen ==
    2
MaxQueue ==
    3
EotMaxTick ==
    2

(***************************************************************************)
(* Configuration and on-disk format constants.                             *)
(***************************************************************************)
fs_page_size ==
    64
md_pages_reserved ==
    2
H5_SIZEOF_MAGIC ==
    4
H5FD_MD_HEADER_OFF ==
    0
H5FD_MD_INDEX_ENTRY_SIZE ==
    16
H5FD_MD_HEADER_SIZE ==
    H5_SIZEOF_MAGIC + 4 + 8 + 8 + 8 + 4
H5FD_MD_INDEX_SIZE(N) ==
    H5_SIZEOF_MAGIC + 8 + 4 + (N * H5FD_MD_INDEX_ENTRY_SIZE) + 4

Pages ==
    1..NumPages

VARIABLES
    pc,                     \* position of the writer inside the running operation
    op,                     \* operation in progress: none, init, eot, flush, close
    max_lag,                \* vfd_swmr_config.max_lag
    tick_num,               \* shared->tick_num
    mdf_idx,                \* shared->mdf_idx (<<>> is NULL)
    mdf_idx_len,            \* shared->mdf_idx_len
    mdf_idx_entries_used,   \* shared->mdf_idx_entries_used
    writer_index_offset,    \* shared->writer_index_offset
    shadow_defrees,         \* shared->shadow_defrees, head first
    md_fd,                  \* shadow file: "none", "open", "unlinked"
    mv_alloc,               \* H5MV: set of allocated shadow pages
    md_hdr,                 \* header block at offset 0 of the shadow file
    md_file,                \* other blocks of the shadow file, by page number
    tl,                     \* page buffer tick list: page -> [image, delay_write_until]
    num_entries,            \* argument of H5F_update_vfd_swmr_metadata_file
    idx_entries_added,      \* local of H5F_vfd_swmr_writer_end_of_tick
    ix,                     \* loop variable i of H5F_update_vfd_swmr_metadata_file
    ndirty,                 \* number of pages dirtied so far (bounded)
    wlog,                   \* history: writes of the publication in progress
    pubs,                   \* history: tick -> byte ranges referenced by what was published with it
    freed,                  \* history: ranges handed to H5MV_free by the last reclamation pass
    hdr_ticks,              \* history: tick -> number of header writes that carried it
    presort,                \* history: first num_entries slots as the page buffer left them
    replaced,               \* history: ranges replaced by the end of tick in progress
    last_done,              \* history: last operation that returned successfully
    last_write,             \* history: kind of the last write to the shadow file
    pub_idx,                \* history: tick and entries published by the last header write
    dw_in,                  \* delay predicate harness: inputs
    dw_out,                 \* delay predicate harness: result
    vfd_swmr_md_eoa,        \* shared->vfd_swmr_md_eoa, the size the shadow file was set to
    now,                    \* last value read from the monotonic clock
    end_of_tick,            \* shared->end_of_tick of the writer
    eot_queue_g,            \* the EOT queue of the process, head first
    vfd_swmr_writer_g,      \* global: is the head of the EOT queue a writer
    end_of_tick_g,          \* global: the current end of tick
    eot_files,              \* EOT queue harness: the files of the process
    eot_last,               \* EOT queue harness: last call and its file
    rpc,                    \* position of the reader inside its end of tick
    r_tick_num,             \* reader: shared->tick_num
    r_mdf_idx,              \* reader: shared->mdf_idx (<<>> is NULL)
    r_mdf_idx_len,          \* reader: shared->mdf_idx_len
    r_mdf_idx_entries_used, \* reader: shared->mdf_idx_entries_used
    r_old_mdf_idx,          \* reader: shared->old_mdf_idx
    r_old_mdf_idx_len,      \* reader: shared->old_mdf_idx_len
    r_old_mdf_idx_entries_used, \* reader: shared->old_mdf_idx_entries_used
    r_end_of_tick,          \* reader: shared->end_of_tick
    r_globals,              \* EOT queue and its two globals in the reader's process
    r_vfd,                  \* reader VFD: header and index it loaded last
    tmp_tick_num,           \* local of H5F_vfd_swmr_reader_end_of_tick
    removed_page,           \* local of H5F_vfd_swmr_reader_end_of_tick
    r_calls,                \* history: evictions and refreshes of the reader end of tick in progress
    r_entry,                \* history: reader state when its end of tick was entered
    r_loads,                \* history: number of header loads of the reader end of tick in progress
    published,              \* history: every pair of tick and index entries a header write published
    dwl,                    \* page buffer delayed write list: page -> delay_write_until
    prep,                   \* position in H5F_vfd_swmr_writer__prep_for_flush_or_close
    waits,                  \* history: calls of wait_a_tick in the prep in progress
    prep_entry,             \* history: tick and delayed write list when the prep was entered
    calc_in,                \* arithmetic harness: function and argument
    calc_out,               \* arithmetic harness: result
    wt,                     \* H5F__vfd_swmr_writer__wait_a_tick: its locals and position
    eot_retries             \* history: writer end of ticks that returned FAIL

vars ==
    <<pc, op, max_lag, tick_num, mdf_idx, mdf_idx_len, mdf_idx_entries_used,
      writer_index_offset, shadow_defrees, md_fd, mv_alloc, md_hdr, md_file,
      tl, num_entries, idx_entries_added, ix, ndirty, wlog, pubs, freed,
      hdr_ticks, presort, replaced, last_done, last_write, pub_idx, dw_in, dw_out,
      vfd_swmr_md_eoa, now, end_of_tick, eot_queue_g, vfd_swmr_writer_g,
      end_of_tick_g, eot_files, eot_last, rpc, r_tick_num, r_mdf_idx,
      r_mdf_idx_len, r_mdf_idx_entries_used, r_old_mdf_idx, r_old_mdf_idx_len,
      r_old_mdf_idx_entries_used, r_end_of_tick, r_globals, r_vfd, tmp_tick_num,
      removed_page, r_calls, r_entry, r_loads, published, dwl, prep, waits,
      prep_entry, calc_in, calc_out, wt, eot_retries>>

writerVars ==
    <<pc, op, max_lag, tick_num, mdf_idx, mdf_idx_len, mdf_idx_entries_used,
      writer_index_offset, shadow_defrees, md_fd, mv_alloc, md_hdr, md_file,
      tl, num_entries, idx_entries_added, ix, ndirty, wlog, pubs, freed,
      hdr_ticks, presort, replaced, last_done, last_write, pub_idx>>

delayVars ==
    <<dw_in, dw_out>>

timeVars ==
    <<now, end_of_tick>>

schedVars ==
    <<eot_queue_g, vfd_swmr_writer_g, end_of_tick_g>>

eotHarnessVars ==
    <<eot_files, eot_last>>

readerVars ==
    <<rpc, r_tick_num, r_mdf_idx, r_mdf_idx_len, r_mdf_idx_entries_used,
      r_old_mdf_idx, r_old_mdf_idx_len, r_old_mdf_idx_entries_used,
      r_end_of_tick, r_globals, r_vfd, tmp_tick_num, removed_page, r_calls,
      r_entry, r_loads>>

calcVars ==
    <<calc_in, calc_out, wt, eot_retries>>

prepVars ==
    <<dwl, prep, waits, prep_entry>>

\* what no step of the writer touches
otherVars ==
    <<delayVars, eotHarnessVars, readerVars, calcVars>>

\* what the steps of the writer outside the page buffer and the prep leave alone
restVars ==
    <<otherVars, prepVars>>

(***************************************************************************)
(* Helpers.                                                                *)
(***************************************************************************)
NULL ==
    0

NoHdr ==
    [fs_page_size |-> 0, tick_num |-> 0, index_offset |-> 0, index_length |-> 0]

\* H5FD_vfd_swmr_idx_entry_t after calloc
ZeroEntry ==
    [hdf5_page_offset |-> 0, md_file_page_offset |-> 0, length |-> 0,
     chksum |-> 0, entry_ptr |-> NULL, delayed_flush |-> 0]

PagesOf(offset, length) ==
    { p \in (offset \div fs_page_size)..((offset + length - 1) \div fs_page_size) : length > 0 }

Overlap(r1, r2) ==
    /\ r1[2] > 0
    /\ r2[2] > 0
    /\ r1[1] < r2[1] + r2[2]
    /\ r2[1] < r1[1] + r1[2]

\* H5_checksum_metadata of a page image (a deterministic 32-bit function)
H5_checksum_metadata(image) ==
    (image * 31 + 7) % 65536


\* all orders in which the page buffer may hand over the pages of S
Orders(S) ==
    { o \in [1..Cardinality(S) -> S] : \A a, b \in 1..Cardinality(S) : a # b => o[a] # o[b] }

\* length in bytes of the metadata entry based at page p: the last page of the
\* model is the base of a multi-page entry, the others are single pages
EntryLength(p) ==
    IF p = NumPages THEN 2 * fs_page_size ELSE fs_page_size

\* contents of the image the writer produces for page p in tick t
ImageOf(p, t) ==
    t * 10 + p

(***************************************************************************)
(* H5MV: free-space manager of the shadow file, at page granularity.      *)
(* Allocation is first fit: a freed range is handed out again before the   *)
(* file is extended.                                                       *)
(***************************************************************************)
MVFits(alloc, s, n) ==
    \A p \in s..(s + n - 1) : p \notin alloc

MVTop(alloc) ==
    IF alloc = {} THEN 0 ELSE 1 + (CHOOSE m \in alloc : \A q \in alloc : q <= m)

H5MV_alloc(alloc, size) ==
    LET n == (size + fs_page_size - 1) \div fs_page_size
        s == CHOOSE c \in 0..MVTop(alloc) :
                 /\ MVFits(alloc, c, n)
                 /\ \A t \in 0..(c - 1) : ~MVFits(alloc, t, n)
    IN  s * fs_page_size

MVTake(alloc, addr, size) ==
    alloc \cup PagesOf(addr, size)

H5MV_free(alloc, offset, length) ==
    alloc \ PagesOf(offset, length)

(***************************************************************************)
(* Deferred frees.                                                         *)
(***************************************************************************)
\* variant: TAILQ_INSERT_TAIL
shadow_range_defer_free_at_tail(queue, offset, length, tick) ==
    queue \o <<[offset |-> offset, length |-> length, tick_num |-> tick]>>

\* TAILQ_INSERT_HEAD of a new record stamped with the current tick
shadow_range_defer_free(queue, offset, length, tick) ==
    <<[offset |-> offset, length |-> length, tick_num |-> tick]>> \o queue

\* variant: the page number is not converted to a byte offset
shadow_image_defer_free_page_number(queue, entry, tick) ==
    shadow_range_defer_free(queue, entry.md_file_page_offset, entry.length, tick)

shadow_image_defer_free(queue, entry, tick) ==
    shadow_range_defer_free(queue, entry.md_file_page_offset * fs_page_size,
                            entry.length, tick)

\* the test of the reclamation loop: TRUE when the walk stops at this entry
StillDeferred(defree, tick, lag) ==
    defree.tick_num + lag > tick

RECURSIVE ReclaimWalk(_, _, _)
\* what is left of the queue after the tail-to-head walk
ReclaimWalk(queue, tick, lag) ==
    IF queue = <<>> THEN <<>>
    ELSE IF StillDeferred(queue[Len(queue)], tick, lag) THEN queue
    ELSE ReclaimWalk(SubSeq(queue, 1, Len(queue) - 1), tick, lag)

\* variant: the early exit is taken one tick longer
Reclaimed_exit_one_tick_longer(queue, tick, lag) ==
    IF tick <= lag + 1 THEN queue ELSE ReclaimWalk(queue, tick, lag)

\* the queue after the reclamation part of H5F_update_vfd_swmr_metadata_file
Reclaimed(queue, tick, lag) ==
    IF tick <= lag THEN queue ELSE ReclaimWalk(queue, tick, lag)

\* variant: one record is taken off the queue
DrainDefrees_head_only(queue) ==
    IF queue = <<>> THEN <<>> ELSE Tail(queue)

RECURSIVE DrainDefrees(_)
\* H5F_vfd_swmr_close_or_flush, closing: every record is taken off the queue
DrainDefrees(queue) ==
    IF queue = <<>> THEN <<>> ELSE DrainDefrees(Tail(queue))

RECURSIVE FreeAll(_, _)
FreeAll(alloc, released) ==
    IF released = <<>> THEN alloc
    ELSE FreeAll(H5MV_free(alloc, Head(released).offset, Head(released).length),
                 Tail(released))

(***************************************************************************)
(* Index: sort, lookup, creation, enlargement.                             *)
(***************************************************************************)
\* variant: the comparison has its results exchanged
H5F__idx_entry_cmp_exchanged(entry1, entry2) ==
    IF entry1.hdf5_page_offset < entry2.hdf5_page_offset THEN 1
    ELSE IF entry1.hdf5_page_offset > entry2.hdf5_page_offset THEN -1
    ELSE 0

H5F__idx_entry_cmp(entry1, entry2) ==
    IF entry1.hdf5_page_offset < entry2.hdf5_page_offset THEN -1
    ELSE IF entry1.hdf5_page_offset > entry2.hdf5_page_offset THEN 1
    ELSE 0

RECURSIVE SortInsert(_, _)
SortInsert(e, s) ==
    IF s = <<>> THEN <<e>>
    ELSE IF H5F__idx_entry_cmp(e, Head(s)) < 0 THEN <<e>> \o s
    ELSE <<Head(s)>> \o SortInsert(e, Tail(s))

RECURSIVE SortEntries(_)
SortEntries(s) ==
    IF s = <<>> THEN <<>> ELSE SortInsert(Head(s), SortEntries(Tail(s)))

\* variant: the index is left as it is
HDqsort_unsorted(index, n) ==
    index

\* HDqsort(index, n, sizeof(*index), H5F__idx_entry_cmp): sorts the first n slots
HDqsort(index, n) ==
    IF n > 0
    THEN SortEntries(SubSeq(index, 1, n)) \o SubSeq(index, n + 1, Len(index))
    ELSE index

RECURSIVE BSearch(_, _, _, _)
BSearch(idx, bottom, top, page) ==
    IF bottom < top
    THEN LET probe == (top + bottom) \div 2
         IN  IF idx[probe + 1].hdf5_page_offset < page
             THEN BSearch(idx, probe + 1, top, page)
             ELSE BSearch(idx, bottom, probe, page)
    ELSE bottom

\* vfd_swmr_pageno_to_mdf_idx_entry: binary search of the first nentries
\* slots; the result is the slot (1-based), 0 for NULL
vfd_swmr_pageno_to_mdf_idx_entry(idx, nentries, page) ==
    IF nentries < 1 THEN 0
    ELSE LET b == BSearch(idx, 0, nentries, page)
         IN  IF b < nentries /\ idx[b + 1].hdf5_page_offset = page THEN b + 1 ELSE 0

\* number of slots H5F__vfd_swmr_writer__create_index allocates
entries_in_index ==
    ((fs_page_size * (md_pages_reserved - 1)) - H5FD_MD_INDEX_SIZE(0))
        \div H5FD_MD_INDEX_ENTRY_SIZE

\* largest value of the type of mdf_idx_len
UINT32_MAX ==
    2147483647

\* variant: the length is doubled in uint32_t arithmetic without the test
new_mdf_idx_len_unchecked(old_mdf_idx_len) ==
    IF UINT32_MAX - old_mdf_idx_len >= old_mdf_idx_len
    THEN old_mdf_idx_len * 2
    ELSE old_mdf_idx_len - (UINT32_MAX - old_mdf_idx_len) - 1

\* vfd_swmr_enlarge_shadow_index: the length of the enlarged index
new_mdf_idx_len(old_mdf_idx_len) ==
    IF UINT32_MAX - old_mdf_idx_len >= old_mdf_idx_len
    THEN old_mdf_idx_len * 2
    ELSE UINT32_MAX

\* variant: writer_index_offset keeps the offset of the old index
vfd_swmr_enlarge_shadow_index_old_offset(st, tick) ==
    LET old_len  == st.len
        new_len  == new_mdf_idx_len(old_len)
        idx_size == H5FD_MD_INDEX_SIZE(new_len)
        idx_addr == H5MV_alloc(st.alloc, idx_size)
    IN  [st EXCEPT
            !.alloc = MVTake(st.alloc, idx_addr, idx_size),
            !.idx = st.idx \o [k \in 1..(new_len - old_len) |-> ZeroEntry],
            !.len = new_len,
            !.defrees = shadow_range_defer_free(st.defrees, st.wio,
                                                H5FD_MD_INDEX_SIZE(old_len), tick),
            !.enlarged = TRUE]

\* vfd_swmr_enlarge_shadow_index on the part of the state it touches
vfd_swmr_enlarge_shadow_index(st, tick) ==
    LET old_len  == st.len
        new_len  == new_mdf_idx_len(old_len)
        idx_size == H5FD_MD_INDEX_SIZE(new_len)
        idx_addr == H5MV_alloc(st.alloc, idx_size)
        wio      == idx_addr
    IN  [st EXCEPT
            !.alloc = MVTake(st.alloc, idx_addr, idx_size),
            !.idx = st.idx \o [k \in 1..(new_len - old_len) |-> ZeroEntry],
            !.len = new_len,
            !.wio = wio,
            !.defrees = shadow_range_defer_free(st.defrees, wio,
                                                H5FD_MD_INDEX_SIZE(old_len), tick),
            !.enlarged = TRUE]


(***************************************************************************)
(* H5PB_vfd_swmr__update_index: for every page of the tick list, in the    *)
(* order of the list, look the page up among the used entries; an entry    *)
(* found gets the new image, a page not found gets the next slot after the *)
(* used ones, the index being enlarged when that slot does not exist.      *)
(***************************************************************************)
RECURSIVE H5PB_vfd_swmr__update_index(_, _, _, _)
H5PB_vfd_swmr__update_index(st, order, k, tick) ==
    IF k > Len(order) THEN st
    ELSE
        LET page == order[k]
            ie   == vfd_swmr_pageno_to_mdf_idx_entry(st.idx, st.used, page)
        IN  IF ie # 0
            THEN H5PB_vfd_swmr__update_index(
                     [st EXCEPT !.idx[ie].entry_ptr = tl[page].image],
                     order, k + 1, tick)
            ELSE
                LET slot == st.used + st.added + 1
                    st1  == IF slot > st.len
                            THEN vfd_swmr_enlarge_shadow_index(st, tick)
                            ELSE st
                    ne   == [hdf5_page_offset |-> page,
                             md_file_page_offset |-> 0,
                             length |-> EntryLength(page),
                             chksum |-> 0,
                             entry_ptr |-> tl[page].image,
                             delayed_flush |-> tl[page].delay_write_until]
                IN  H5PB_vfd_swmr__update_index(
                        [st1 EXCEPT !.idx[slot] = ne, !.added = st.added + 1],
                        order, k + 1, tick)

(***************************************************************************)
(* The delay predicate, H5F_vfd_swmr_writer__delay_write.                  *)
(***************************************************************************)
\* variant: a delayed_flush equal to the tick counts as past
delay_until_strict(idx, used, tick, lag, page) ==
    LET ie == IF idx = <<>> THEN 0
              ELSE vfd_swmr_pageno_to_mdf_idx_entry(idx, used, page)
    IN  IF ie = 0 THEN tick + lag
        ELSE IF idx[ie].delayed_flush > tick THEN idx[ie].delayed_flush
        ELSE 0

\* the value computed for until
delay_until(idx, used, tick, lag, page) ==
    LET ie == IF idx = <<>> THEN 0
              ELSE vfd_swmr_pageno_to_mdf_idx_entry(idx, used, page)
    IN  IF ie = 0 THEN tick + lag
        ELSE IF idx[ie].delayed_flush >= tick THEN idx[ie].delayed_flush
        ELSE 0

\* variant: only the lower end of the range is tested
delay_out_of_range_lower_only(until, tick, lag) ==
    until # 0 /\ until < tick

\* the range test that makes the call fail
delay_out_of_range(until, tick, lag) ==
    until # 0 /\ (until < tick \/ tick + lag < until)

\* the call: return value and the contents of *untilp afterwards
H5F_vfd_swmr_writer__delay_write(idx, used, tick, lag, page, untilp) ==
    LET until == delay_until(idx, used, tick, lag, page)
    IN  IF delay_out_of_range(until, tick, lag)
        THEN [ret |-> "FAIL", untilp |-> untilp]
        ELSE [ret |-> "SUCCEED", untilp |-> until]

(***************************************************************************)
(* Blocks of the shadow file.                                              *)
(***************************************************************************)
\* variant: the index length leaves out the trailing checksum
HdrImage_short_length(tick, index_offset, n) ==
    [fs_page_size |-> fs_page_size, tick_num |-> tick,
     index_offset |-> index_offset, index_length |-> H5FD_MD_INDEX_SIZE(n) - 4]

\* the header H5F__vfd_swmr_construct_write_md_hdr encodes
HdrImage(tick, index_offset, n) ==
    [fs_page_size |-> fs_page_size, tick_num |-> tick,
     index_offset |-> index_offset, index_length |-> H5FD_MD_INDEX_SIZE(n)]

\* variant: the checksum field is left zero
EncodeEntry_no_chksum(e) ==
    [hdf5_page_offset |-> e.hdf5_page_offset,
     md_file_page_offset |-> e.md_file_page_offset,
     length |-> e.length, chksum |-> 0]

\* the four fields of an entry that H5F__vfd_swmr_construct_write_md_idx encodes
EncodeEntry(e) ==
    [hdf5_page_offset |-> e.hdf5_page_offset,
     md_file_page_offset |-> e.md_file_page_offset,
     length |-> e.length, chksum |-> e.chksum]

\* variant: the entry count encoded is one more than the entries
IdxImage_one_more(tick, n, index) ==
    [kind |-> "index", tick_num |-> tick, num_entries |-> n + 1,
     entries |-> [k \in 1..n |-> EncodeEntry(index[k])]]

\* the index H5F__vfd_swmr_construct_write_md_idx encodes
IdxImage(tick, n, index) ==
    [kind |-> "index", tick_num |-> tick, num_entries |-> n,
     entries |-> [k \in 1..n |-> EncodeEntry(index[k])]]

\* variant: the index is always written where H5F_vfd_swmr_init put it
IdxSeek_initial(wio) ==
    fs_page_size

\* where H5F__vfd_swmr_construct_write_md_idx seeks to
IdxSeek(wio) ==
    wio

\* a positioned write of a block of the given size
WriteAt(file, offset, size, cell) ==
    LET s  == offset \div fs_page_size
        ps == PagesOf(offset, size)
    IN  [q \in (DOMAIN file) \cup ps |->
            IF q = s THEN cell
            ELSE IF q \in ps THEN [kind |-> "cont", of |-> s]
            ELSE file[q]]

Garbage ==
    [kind |-> "garbage"]

\* what a read of length bytes at offset decodes to as an index
IndexAt(file, offset, length) ==
    LET s == offset \div fs_page_size
    IN  IF /\ s \in DOMAIN file
           /\ file[s].kind = "index"
           /\ H5FD_MD_INDEX_SIZE(file[s].num_entries) = length
           /\ \A q \in PagesOf(offset, length) \ {s} :
                  q \in DOMAIN file /\ file[q] = [kind |-> "cont", of |-> s]
        THEN file[s]
        ELSE Garbage

\* byte ranges referenced by a header and the first n entries of index
RangesOf(wio, n, index) ==
    {<<wio, H5FD_MD_INDEX_SIZE(n)>>} \cup
    { <<index[k].md_file_page_offset * fs_page_size, index[k].length>> : k \in 1..n }

\* next slot at or after from, among the first n, that has an image to write
NextDirty(index, from, n) ==
    IF \E j \in from..n : index[j].entry_ptr # NULL
    THEN CHOOSE j \in from..n :
             /\ index[j].entry_ptr # NULL
             /\ \A h \in from..(j - 1) : index[h].entry_ptr = NULL
    ELSE n + 1

\* variant: the header is written before the index
NextStep_header_first(step, o) ==
    IF step = "entries" THEN "hdr"
    ELSE IF step = "hdr" THEN "idx"
    ELSE IF o = "eot" THEN "reclaim"
    ELSE "fin"

\* variant: an end of tick reclaims before it writes the index
NextStep_reclaim_first(step, o) ==
    IF step = "entries" THEN (IF o = "eot" THEN "reclaim" ELSE "idx")
    ELSE IF step = "idx" THEN "hdr"
    ELSE "fin"

\* order of the steps of a publication
NextStep(step, o) ==
    IF step = "entries" THEN "idx"
    ELSE IF step = "idx" THEN "hdr"
    ELSE IF o = "eot" THEN "reclaim"
    ELSE "fin"

\* variant: the tick is incremented twice
update_tick_num_by_two(tick, incr_tick_num) ==
    IF incr_tick_num THEN tick + 2 ELSE tick

\* variant: the tick is never incremented
update_tick_num_never(tick, incr_tick_num) ==
    tick

\* H5F__vfd_swmr_update_end_of_tick_and_tick_num on tick_num
update_tick_num(tick, incr_tick_num) ==
    IF incr_tick_num THEN tick + 1 ELSE tick

EmptyTL ==
    [p \in {} |-> 0]


(***************************************************************************)
(* Time.  The monotonic clock and every timespec are counted in units of   *)
(* 256 ns, so that the sums fit the integers of the model checker and the  *)
(* arithmetic stays exact: 10^9 ns are 3906250 units, 10^8 ns are 390625   *)
(* units and 2^32 ns, where unsigned int arithmetic wraps, are 2^24 units. *)
(***************************************************************************)
nanosecs_per_second ==
    3906250
nanosecs_per_tenth_sec ==
    390625

\* what unsigned int arithmetic on nanoseconds is done modulo
UINT_MAX_plus_1 ==
    16777216

\* tick_len * nanosecs_per_tenth_sec: tick_len is a uint32_t and the macro an
\* int constant, so the product is an unsigned int
tick_len_nsecs(tlen) ==
    (tlen * nanosecs_per_tenth_sec) % UINT_MAX_plus_1

\* H5F__vfd_swmr_writer__wait_a_tick: the time asked of nanosleep
wait_a_tick_req(tlen) ==
    LET tick_in_nsec == tick_len_nsecs(tlen)
    IN  [tv_sec |-> tick_in_nsec \div nanosecs_per_second,
         tv_nsec |-> tick_in_nsec % nanosecs_per_second]

\* vfd_swmr_config.tick_len of the writer
tick_len ==
    1

\* reading of the monotonic clock before the first operation
ClockStart ==
    8 * nanosecs_per_tenth_sec

\* struct timespec for a reading of the clock
Timespec(n) ==
    [tv_sec |-> n \div nanosecs_per_second, tv_nsec |-> n % nanosecs_per_second]

ZeroTime ==
    [tv_sec |-> 0, tv_nsec |-> 0]

\* HDclock_gettime(CLOCK_MONOTONIC): the clock never goes back
ClockReads(last) ==
    { c \in { ClockStart + (k * nanosecs_per_tenth_sec) : k \in 0..MaxClock } :
        c >= last }

\* variant: the tick length is not added
new_end_of_tick_now(curr, tlen) ==
    curr

\* H5F__vfd_swmr_update_end_of_tick_and_tick_num: the new end of tick
new_end_of_tick(curr, tlen) ==
    LET curr_nsecs    == curr.tv_sec * nanosecs_per_second + curr.tv_nsec
        tlen_nsecs    == tick_len_nsecs(tlen)
        new_end_nsecs == curr_nsecs + tlen_nsecs
    IN  [tv_sec |-> new_end_nsecs \div nanosecs_per_second,
         tv_nsec |-> new_end_nsecs % nanosecs_per_second]

\* variant: timespeccmp(a, b, <)
timespeccmp_le_strict(a, b) ==
    IF a.tv_sec = b.tv_sec THEN a.tv_nsec < b.tv_nsec ELSE a.tv_sec < b.tv_sec

\* timespeccmp(a, b, <=)
timespeccmp_le(a, b) ==
    IF a.tv_sec = b.tv_sec THEN a.tv_nsec <= b.tv_nsec ELSE a.tv_sec <= b.tv_sec

(***************************************************************************)
(* The EOT queue and its two globals, as one record                        *)
(* [q, writer_g, eot_g] per process.                                       *)
(***************************************************************************)
\* the tail of H5F_vfd_swmr_insert_entry_eot and H5F_vfd_swmr_remove_entry_eot
SetGlobals(g) ==
    IF g.q # <<>>
    THEN [g EXCEPT !.writer_g = g.q[1].vfd_swmr_writer,
                   !.eot_g = g.q[1].end_of_tick]
    ELSE [g EXCEPT !.writer_g = FALSE]

\* variant: the search stops at the first entry, whichever file it is of
EotFind_first_entry(q, k, f) ==
    IF k > Len(q) THEN 0 ELSE k

\* TAILQ_FOREACH: position of the first entry of file f, 0 when there is none
RECURSIVE EotFind(_, _, _)
EotFind(q, k, f) ==
    IF k > Len(q) THEN 0
    ELSE IF q[k].vfd_swmr_file = f THEN k
    ELSE EotFind(q, k + 1, f)

H5F_vfd_swmr_remove_entry_eot(g, f) ==
    LET curr == EotFind(g.q, 1, f)
        q1   == IF curr # 0
                THEN SubSeq(g.q, 1, curr - 1) \o SubSeq(g.q, curr + 1, Len(g.q))
                ELSE g.q
    IN  SetGlobals([g EXCEPT !.q = q1])

\* variant: the new entry always goes to the tail
EotPrec_tail(q, k, e) ==
    k

\* TAILQ_FOREACH_REVERSE from position k: the predecessor of the new entry,
\* 0 when it has none
RECURSIVE EotPrec(_, _, _)
EotPrec(q, k, e) ==
    IF k = 0 THEN 0
    ELSE IF timespeccmp_le(q[k].end_of_tick, e.end_of_tick) THEN k
    ELSE EotPrec(q, k - 1, e)

\* f is the file with its shared fields: [file, vfd_swmr_writer, tick_num, end_of_tick]
H5F_vfd_swmr_insert_entry_eot(g, f) ==
    LET entry_ptr == [vfd_swmr_writer |-> f.vfd_swmr_writer,
                      tick_num        |-> f.tick_num,
                      end_of_tick     |-> f.end_of_tick,
                      vfd_swmr_file   |-> f.file]
        prec_ptr  == EotPrec(g.q, Len(g.q), entry_ptr)
        q1        == SubSeq(g.q, 1, prec_ptr) \o <<entry_ptr>> \o
                     SubSeq(g.q, prec_ptr + 1, Len(g.q))
    IN  SetGlobals([g EXCEPT !.q = q1])

\* the globals of the writer's process as one record
WriterGlobals ==
    [q |-> eot_queue_g, writer_g |-> vfd_swmr_writer_g, eot_g |-> end_of_tick_g]

\* the H5F_t of the writer
WriterFile ==
    1

WriterF(tick, eot) ==
    [file |-> WriterFile, vfd_swmr_writer |-> TRUE, tick_num |-> tick,
     end_of_tick |-> eot]

\* the H5F_t of the reader
ReaderFile ==
    2


(***************************************************************************)
(* Initial state: the file structure exists, H5F_vfd_swmr_init has not run.*)
(***************************************************************************)
DelayIdle ==
    /\ dw_in = [idx |-> <<>>, used |-> 0, tick |-> 1, lag |-> 1, page |-> 1, untilp |-> 0]
    /\ dw_out = [ret |-> "none", untilp |-> 0]

\* the writer's memory before H5F_vfd_swmr_init
WriterMemoryStart ==
    /\ pc = "start"
    /\ op = "none"
    /\ tick_num = 0
    /\ mdf_idx = <<>>
    /\ mdf_idx_len = 0
    /\ mdf_idx_entries_used = 0
    /\ writer_index_offset = 0
    /\ shadow_defrees = <<>>
    /\ mv_alloc = {}
    /\ tl = EmptyTL
    /\ num_entries = 0
    /\ idx_entries_added = 0
    /\ ix = 0
    /\ ndirty = 0
    /\ wlog = <<>>
    /\ pubs = [t \in 1..MaxTick |-> {}]
    /\ freed = {}
    /\ hdr_ticks = [t \in 1..MaxTick |-> 0]
    /\ presort = <<>>
    /\ replaced = {}
    /\ last_done = "none"
    /\ last_write = "none"
    /\ pub_idx = [tick_num |-> 0, entries |-> <<>>]
    /\ vfd_swmr_md_eoa = 0
    /\ now = ClockStart
    /\ end_of_tick = ZeroTime
    /\ eot_queue_g = <<>>
    /\ vfd_swmr_writer_g = FALSE
    /\ end_of_tick_g = ZeroTime
    /\ published = {}
    /\ dwl = EmptyTL
    /\ prep = "none"
    /\ waits = 0
    /\ prep_entry = [tick_num |-> 0, dwl |-> EmptyTL]

WriterStart ==
    /\ WriterMemoryStart
    /\ md_fd = "none"
    /\ md_hdr = NoHdr
    /\ md_file = [p \in {} |-> Garbage]

\* H5F__vfd_swmr_writer__wait_a_tick is not running
WaitIdle ==
    [pc |-> "none", req |-> 0, rem |-> 0, result |-> 0, errno |-> "none",
     signals |-> 0, eots |-> 0, ret_value |-> "SUCCEED"]

\* the arithmetic harness is not used
CalcIdle ==
    /\ calc_in = [fn |-> "none", arg |-> 0, clock |-> 0]
    /\ calc_out = [done |-> FALSE, ts |-> ZeroTime, val |-> 0]
    /\ wt = WaitIdle
    /\ eot_retries = 0

\* no file is given to the EOT queue harness
EotHarnessIdle ==
    /\ eot_files = <<>>
    /\ eot_last = [op |-> "none", file |-> 0]

\* the reader process has not opened the file
ReaderIdle ==
    /\ rpc = "closed"
    /\ r_tick_num = 0
    /\ r_mdf_idx = <<>>
    /\ r_mdf_idx_len = 0
    /\ r_mdf_idx_entries_used = 0
    /\ r_old_mdf_idx = <<>>
    /\ r_old_mdf_idx_len = 0
    /\ r_old_mdf_idx_entries_used = 0
    /\ r_end_of_tick = ZeroTime
    /\ r_globals = [q |-> <<>>, writer_g |-> FALSE, eot_g |-> ZeroTime]
    /\ r_vfd = [hdr |-> NoHdr, idx |-> Garbage]
    /\ tmp_tick_num = 0
    /\ removed_page = <<>>
    /\ r_calls = <<>>
    /\ r_entry = [outcome |-> "none"]
    /\ r_loads = 0

Init ==
    /\ WriterStart
    /\ max_lag \in 1..MaxLagBound
    /\ DelayIdle
    /\ EotHarnessIdle
    /\ CalcIdle
    /\ ReaderIdle

(***************************************************************************)
(* H5F_vfd_swmr_init, writer branch.                                       *)
(***************************************************************************)
H5F_vfd_swmr_init ==
    /\ pc = "start"
    /\ \E file_create \in BOOLEAN :
        LET hdr_addr == H5MV_alloc({}, fs_page_size)
            a1       == MVTake({}, hdr_addr, fs_page_size)
            md_size  == md_pages_reserved * fs_page_size
            idx_addr == H5MV_alloc(a1, md_size - fs_page_size)
            a2       == MVTake(a1, idx_addr, md_size - fs_page_size)
        IN  /\ tick_num' = 1
            /\ md_fd' = "open"
            /\ mv_alloc' = a2
            /\ writer_index_offset' = idx_addr
            /\ vfd_swmr_md_eoa' = md_size
            /\ op' = "init"
            /\ num_entries' = 0
            /\ wlog' = <<>>
            /\ pc' = IF file_create THEN "fin" ELSE NextStep("entries", "init")
    /\ UNCHANGED <<max_lag, mdf_idx, mdf_idx_len, mdf_idx_entries_used,
                   shadow_defrees, md_hdr, md_file, tl, idx_entries_added, ix,
                   ndirty, pubs, freed, hdr_ticks, presort, replaced,
                   last_done, last_write, pub_idx, published, restVars, timeVars, schedVars>>

InitFinish ==
    /\ pc = "fin"
    /\ op = "init"
    /\ tick_num' = update_tick_num(tick_num, FALSE)
    /\ \E curr \in ClockReads(now) :
        /\ now' = curr
        /\ end_of_tick' = new_end_of_tick(Timespec(curr), tick_len)
        /\ end_of_tick_g' = new_end_of_tick(Timespec(curr), tick_len)
    /\ pc' = "opened"
    /\ op' = "none"
    /\ last_done' = "init"
    /\ UNCHANGED <<max_lag, mdf_idx, mdf_idx_len, mdf_idx_entries_used,
                   writer_index_offset, shadow_defrees, md_fd, mv_alloc, md_hdr,
                   md_file, tl, num_entries, idx_entries_added, ix, ndirty, wlog,
                   pubs, freed, hdr_ticks, presort, replaced, last_write,
                   pub_idx, published, restVars, vfd_swmr_md_eoa, eot_queue_g, vfd_swmr_writer_g>>

(***************************************************************************)
(* The caller of H5F_vfd_swmr_init, H5F_open, puts the file on the EOT     *)
(* queue when the initialization has returned.                             *)
(***************************************************************************)
OpenInsertEot ==
    /\ pc = "opened"
    /\ LET g == H5F_vfd_swmr_insert_entry_eot(WriterGlobals,
                                              WriterF(tick_num, end_of_tick))
       IN  /\ eot_queue_g' = g.q
           /\ vfd_swmr_writer_g' = g.writer_g
           /\ end_of_tick_g' = g.eot_g
    /\ pc' = "idle"
    /\ UNCHANGED <<op, max_lag, tick_num, mdf_idx, mdf_idx_len,
                   mdf_idx_entries_used, writer_index_offset, shadow_defrees,
                   md_fd, mv_alloc, md_hdr, md_file, tl, num_entries,
                   idx_entries_added, ix, ndirty, wlog, pubs, freed, hdr_ticks,
                   presort, replaced, last_done, last_write, pub_idx, published, restVars,
                   timeVars, vfd_swmr_md_eoa>>

\* the page buffer puts a page whose write is delayed on the delayed write list
H5PB_vfd_swmr__delay_write(list, page, until) ==
    IF until = 0
    THEN list
    ELSE [q \in (DOMAIN list) \cup {page} |-> IF q = page THEN until ELSE list[q]]

\* H5PB_vfd_swmr__release_delayed_writes: the writes due at the current tick
\* leave the delayed write list
H5PB_vfd_swmr__release_delayed_writes(list, tick) ==
    [q \in { r \in DOMAIN list : list[r] > tick } |-> list[q]]

\* variant: the loop is left at once
dwl_pending_never(list) ==
    FALSE

\* H5F_vfd_swmr_writer__prep_for_flush_or_close: pb_ptr->dwl_len > 0
dwl_pending(list) ==
    Cardinality(DOMAIN list) > 0

(***************************************************************************)
(* The page buffer dirties a metadata page during the tick.  A page that   *)
(* was allocated in this tick is not delayed; for any other page the page  *)
(* buffer asks the delay predicate.                                        *)
(***************************************************************************)
DirtyPage ==
    /\ pc = "idle"
    /\ ndirty < MaxDirty
    /\ tick_num < MaxTick
    /\ \E p \in Pages \ DOMAIN tl :
       \E fresh \in BOOLEAN :
        LET dw == H5F_vfd_swmr_writer__delay_write(mdf_idx, mdf_idx_entries_used,
                                                   tick_num, max_lag, p, 0)
            e  == [image |-> ImageOf(p, tick_num),
                   delay_write_until |-> IF fresh THEN 0 ELSE dw.untilp]
        IN  /\ fresh => vfd_swmr_pageno_to_mdf_idx_entry(mdf_idx,
                            mdf_idx_entries_used, p) = 0
            /\ dw.ret = "SUCCEED"
            /\ tl' = [q \in (DOMAIN tl) \cup {p} |-> IF q = p THEN e ELSE tl[q]]
            /\ dwl' = H5PB_vfd_swmr__delay_write(dwl, p, e.delay_write_until)
    /\ ndirty' = ndirty + 1
    /\ UNCHANGED <<pc, op, max_lag, tick_num, mdf_idx, mdf_idx_len,
                   mdf_idx_entries_used, writer_index_offset, shadow_defrees,
                   md_fd, mv_alloc, md_hdr, md_file, num_entries,
                   idx_entries_added, ix, wlog, pubs, freed, hdr_ticks, presort,
                   replaced, last_done, last_write, pub_idx, published, otherVars,
                   prep, waits, prep_entry, timeVars, schedVars, vfd_swmr_md_eoa>>

(***************************************************************************)
(* H5F_vfd_swmr_writer_end_of_tick, steps 3 and 4: create the index in     *)
(* tick 1, let the page buffer update it.  A page buffer that has pages to *)
(* enter and finds no index dereferences NULL.                             *)
(***************************************************************************)
EotBegin ==
    /\ pc = "idle"
    /\ tick_num < MaxTick
    /\ \E order \in Orders(DOMAIN tl) :
        LET create == tick_num = 1
            st0 == [idx      |-> IF create
                                 THEN [k \in 1..entries_in_index |-> ZeroEntry]
                                 ELSE mdf_idx,
                    len      |-> IF create THEN entries_in_index ELSE mdf_idx_len,
                    used     |-> IF create THEN 0 ELSE mdf_idx_entries_used,
                    added    |-> 0,
                    wio      |-> writer_index_offset,
                    defrees  |-> shadow_defrees,
                    alloc    |-> mv_alloc,
                    enlarged |-> FALSE]
        IN  IF st0.idx = <<>> /\ order # <<>>
            THEN /\ pc' = "crashed"
                 /\ op' = "eot"
                 /\ UNCHANGED <<mdf_idx, mdf_idx_len, mdf_idx_entries_used,
                                writer_index_offset, shadow_defrees, mv_alloc,
                                idx_entries_added, num_entries, wlog, replaced,
                                freed>>
            ELSE LET st == H5PB_vfd_swmr__update_index(st0, order, 1, tick_num)
                 IN  /\ mdf_idx' = st.idx
                     /\ mdf_idx_len' = st.len
                     /\ mdf_idx_entries_used' = st.used
                     /\ writer_index_offset' = st.wio
                     /\ shadow_defrees' = st.defrees
                     /\ mv_alloc' = st.alloc
                     /\ idx_entries_added' = st.added
                     /\ num_entries' = st.used + st.added
                     /\ wlog' = <<>>
                     /\ replaced' = {}
                     /\ freed' = {}
                     /\ op' = "eot"
                     /\ pc' = "sort"
    /\ UNCHANGED <<max_lag, tick_num, md_fd, md_hdr, md_file, tl, ix, ndirty,
                   pubs, hdr_ticks, presort, last_done, last_write, pub_idx,
                   published, restVars, timeVars, schedVars, vfd_swmr_md_eoa>>

(***************************************************************************)
(* H5F_update_vfd_swmr_metadata_file: sort.                                *)
(***************************************************************************)
EotSort ==
    /\ pc = "sort"
    /\ presort' = [k \in 1..num_entries |-> mdf_idx[k].hdf5_page_offset]
    /\ LET sorted == HDqsort(mdf_idx, num_entries)
           nx     == NextDirty(sorted, 1, num_entries)
       IN  /\ mdf_idx' = sorted
           /\ ix' = nx
           /\ pc' = IF nx > num_entries THEN NextStep("entries", op) ELSE "defer"
    /\ UNCHANGED <<op, max_lag, tick_num, mdf_idx_len, mdf_idx_entries_used,
                   writer_index_offset, shadow_defrees, md_fd, mv_alloc, md_hdr,
                   md_file, tl, num_entries, idx_entries_added, ndirty, wlog,
                   pubs, freed, hdr_ticks, replaced, last_done, last_write,
                   pub_idx, published, restVars, timeVars, schedVars, vfd_swmr_md_eoa>>

(***************************************************************************)
(* H5F_update_vfd_swmr_metadata_file: the loop body for an entry that has  *)
(* an image, in three steps: defer the free of the previous image,         *)
(* allocate, write.                                                        *)
(***************************************************************************)
EotDefer ==
    /\ pc = "defer"
    /\ IF mdf_idx[ix].md_file_page_offset # 0
       THEN /\ shadow_defrees' =
                   shadow_image_defer_free(shadow_defrees, mdf_idx[ix], tick_num)
            /\ replaced' = replaced \cup
                   {[offset |-> mdf_idx[ix].md_file_page_offset * fs_page_size,
                     length |-> mdf_idx[ix].length,
                     tick_num |-> tick_num]}
       ELSE UNCHANGED <<shadow_defrees, replaced>>
    /\ pc' = "alloc"
    /\ UNCHANGED <<op, max_lag, tick_num, mdf_idx, mdf_idx_len,
                   mdf_idx_entries_used, writer_index_offset, md_fd, mv_alloc,
                   md_hdr, md_file, tl, num_entries, idx_entries_added, ix,
                   ndirty, wlog, pubs, freed, hdr_ticks, presort, last_done,
                   last_write, pub_idx, published, restVars, timeVars, schedVars, vfd_swmr_md_eoa>>

EotAlloc ==
    /\ pc = "alloc"
    /\ LET md_addr == H5MV_alloc(mv_alloc, mdf_idx[ix].length)
       IN  /\ mv_alloc' = MVTake(mv_alloc, md_addr, mdf_idx[ix].length)
           /\ mdf_idx' = [mdf_idx EXCEPT
                  ![ix].md_file_page_offset = md_addr \div fs_page_size,
                  ![ix].chksum = H5_checksum_metadata(mdf_idx[ix].entry_ptr)]
    /\ pc' = "write"
    /\ UNCHANGED <<op, max_lag, tick_num, mdf_idx_len, mdf_idx_entries_used,
                   writer_index_offset, shadow_defrees, md_fd, md_hdr, md_file,
                   tl, num_entries, idx_entries_added, ix, ndirty, wlog, pubs,
                   freed, hdr_ticks, presort, replaced, last_done, last_write,
                   pub_idx, published, restVars, timeVars, schedVars, vfd_swmr_md_eoa>>

EotWrite ==
    /\ pc = "write"
    /\ md_file' = WriteAt(md_file,
                          mdf_idx[ix].md_file_page_offset * fs_page_size,
                          mdf_idx[ix].length,
                          [kind |-> "image", image |-> mdf_idx[ix].entry_ptr])
    /\ wlog' = Append(wlog, "image")
    /\ last_write' = "image"
    /\ LET cleared == [mdf_idx EXCEPT ![ix].entry_ptr = NULL]
           nx      == NextDirty(cleared, ix + 1, num_entries)
       IN  /\ mdf_idx' = cleared
           /\ ix' = nx
           /\ pc' = IF nx > num_entries THEN NextStep("entries", op) ELSE "defer"
    /\ UNCHANGED <<op, max_lag, tick_num, mdf_idx_len, mdf_idx_entries_used,
                   writer_index_offset, shadow_defrees, md_fd, mv_alloc, md_hdr,
                   tl, num_entries, idx_entries_added, ndirty, pubs, freed,
                   hdr_ticks, presort, replaced, last_done, pub_idx, published, restVars, timeVars, schedVars, vfd_swmr_md_eoa>>

(***************************************************************************)
(* H5F__vfd_swmr_construct_write_md_idx and ..._md_hdr, for every caller.  *)
(***************************************************************************)
H5F__vfd_swmr_construct_write_md_idx ==
    /\ pc = "idx"
    /\ md_file' = WriteAt(md_file, IdxSeek(writer_index_offset),
                          H5FD_MD_INDEX_SIZE(num_entries),
                          IdxImage(tick_num, num_entries, mdf_idx))
    /\ wlog' = Append(wlog, "index")
    /\ last_write' = "index"
    /\ pc' = NextStep("idx", op)
    /\ UNCHANGED <<op, max_lag, tick_num, mdf_idx, mdf_idx_len,
                   mdf_idx_entries_used, writer_index_offset, shadow_defrees,
                   md_fd, mv_alloc, md_hdr, tl, num_entries, idx_entries_added,
                   ix, ndirty, pubs, freed, hdr_ticks, presort, replaced,
                   last_done, pub_idx, published, restVars, timeVars, schedVars, vfd_swmr_md_eoa>>

H5F__vfd_swmr_construct_write_md_hdr ==
    /\ pc = "hdr"
    /\ md_hdr' = HdrImage(tick_num, writer_index_offset, num_entries)
    /\ wlog' = Append(wlog, "header")
    /\ last_write' = "header"
    /\ pubs' = [pubs EXCEPT ![tick_num] =
                   @ \cup RangesOf(writer_index_offset, num_entries, mdf_idx)]
    /\ hdr_ticks' = [hdr_ticks EXCEPT ![tick_num] = @ + 1]
    /\ pub_idx' = [tick_num |-> tick_num,
                   entries |-> [k \in 1..num_entries |-> EncodeEntry(mdf_idx[k])]]
    /\ published' = published \cup
           {[tick_num |-> tick_num,
             entries |-> [k \in 1..num_entries |-> EncodeEntry(mdf_idx[k])]]}
    /\ pc' = NextStep("hdr", op)
    /\ UNCHANGED <<op, max_lag, tick_num, mdf_idx, mdf_idx_len,
                   mdf_idx_entries_used, writer_index_offset, shadow_defrees,
                   md_fd, mv_alloc, md_file, tl, num_entries, idx_entries_added,
                   ix, ndirty, freed, presort, replaced, last_done, restVars, timeVars, schedVars, vfd_swmr_md_eoa>>

(***************************************************************************)
(* H5F_update_vfd_swmr_metadata_file: reclamation of deferred frees.       *)
(***************************************************************************)
EotReclaim ==
    /\ pc = "reclaim"
    /\ LET left     == Reclaimed(shadow_defrees, tick_num, max_lag)
           released == SubSeq(shadow_defrees, Len(left) + 1, Len(shadow_defrees))
       IN  /\ shadow_defrees' = left
           /\ mv_alloc' = FreeAll(mv_alloc, released)
           /\ freed' = { [offset |-> released[k].offset,
                          length |-> released[k].length,
                          tick_num |-> released[k].tick_num,
                          at_tick |-> tick_num] : k \in 1..Len(released) }
    /\ pc' = "fin"
    /\ UNCHANGED <<op, max_lag, tick_num, mdf_idx, mdf_idx_len,
                   mdf_idx_entries_used, writer_index_offset, md_fd, md_hdr,
                   md_file, tl, num_entries, idx_entries_added, ix, ndirty, wlog,
                   pubs, hdr_ticks, presort, replaced, last_done, last_write,
                   pub_idx, published, restVars, timeVars, schedVars, vfd_swmr_md_eoa>>

(***************************************************************************)
(* H5F_vfd_swmr_writer_end_of_tick, after the shadow file is updated.      *)
(***************************************************************************)
EotFinish ==
    /\ pc = "fin"
    /\ op = "eot"
    /\ mdf_idx_entries_used' = mdf_idx_entries_used + idx_entries_added
    /\ tl' = EmptyTL
    /\ tick_num' = update_tick_num(tick_num, TRUE)
    /\ \E curr \in ClockReads(now) :
        LET eot == new_end_of_tick(Timespec(curr), tick_len)
            g0  == [WriterGlobals EXCEPT !.eot_g = eot]
            g1  == H5F_vfd_swmr_remove_entry_eot(g0, WriterFile)
            g2  == H5F_vfd_swmr_insert_entry_eot(g1,
                       WriterF(update_tick_num(tick_num, TRUE), eot))
        IN  /\ now' = curr
            /\ end_of_tick' = eot
            /\ eot_queue_g' = g2.q
            /\ vfd_swmr_writer_g' = g2.writer_g
            /\ end_of_tick_g' = g2.eot_g
    /\ dwl' = H5PB_vfd_swmr__release_delayed_writes(dwl, tick_num)
    /\ prep' = IF prep \in {"forced", "wait"} THEN "loop" ELSE prep
    /\ pc' = "idle"
    /\ op' = "none"
    /\ last_done' = "eot"
    /\ UNCHANGED <<max_lag, mdf_idx, mdf_idx_len, writer_index_offset,
                   shadow_defrees, md_fd, mv_alloc, md_hdr, md_file, num_entries,
                   idx_entries_added, ix, ndirty, wlog, pubs, freed, hdr_ticks,
                   presort, replaced, last_write, pub_idx, published, otherVars,
                   waits, prep_entry, vfd_swmr_md_eoa>>

(***************************************************************************)
(* H5F_vfd_swmr_close_or_flush.                                            *)
(***************************************************************************)
CloseOrFlushBegin ==
    /\ pc = "idle"
    /\ \E closing \in BOOLEAN :
        /\ ~closing => tick_num < MaxTick
        /\ op' = IF closing THEN "close" ELSE "flush"
    /\ num_entries' = 0
    /\ wlog' = <<>>
    /\ pc' = NextStep("entries", "flush")
    /\ UNCHANGED <<max_lag, tick_num, mdf_idx, mdf_idx_len,
                   mdf_idx_entries_used, writer_index_offset, shadow_defrees,
                   md_fd, mv_alloc, md_hdr, md_file, tl, idx_entries_added, ix,
                   ndirty, pubs, freed, hdr_ticks, presort, replaced, last_done,
                   last_write, pub_idx, published, restVars, timeVars, schedVars, vfd_swmr_md_eoa>>

FlushFinish ==
    /\ pc = "fin"
    /\ op = "flush"
    /\ tick_num' = update_tick_num(tick_num, TRUE)
    /\ \E curr \in ClockReads(now) :
        /\ now' = curr
        /\ end_of_tick' = new_end_of_tick(Timespec(curr), tick_len)
        /\ end_of_tick_g' = new_end_of_tick(Timespec(curr), tick_len)
    /\ prep' = "none"
    /\ pc' = "idle"
    /\ op' = "none"
    /\ last_done' = "flush"
    /\ UNCHANGED <<max_lag, mdf_idx, mdf_idx_len, mdf_idx_entries_used,
                   writer_index_offset, shadow_defrees, md_fd, mv_alloc, md_hdr,
                   md_file, tl, num_entries, idx_entries_added, ix, ndirty, wlog,
                   pubs, freed, hdr_ticks, presort, replaced, last_write,
                   pub_idx, published, otherVars, dwl, waits, prep_entry,
                   vfd_swmr_md_eoa, eot_queue_g, vfd_swmr_writer_g>>

CloseFinish ==
    /\ pc = "fin"
    /\ op = "close"
    /\ tick_num' = tick_num + 1
    /\ md_fd' = "unlinked"
    /\ mv_alloc' = {}
    /\ shadow_defrees' = DrainDefrees(shadow_defrees)
    /\ prep' = "none"
    /\ pc' = "closed"
    /\ op' = "none"
    /\ last_done' = "close"
    /\ UNCHANGED <<max_lag, mdf_idx, mdf_idx_len, mdf_idx_entries_used,
                   writer_index_offset, md_hdr, md_file, tl, num_entries,
                   idx_entries_added, ix, ndirty, wlog, pubs, freed, hdr_ticks,
                   presort, replaced, last_write, pub_idx, published, otherVars,
                   dwl, waits, prep_entry, timeVars, schedVars, vfd_swmr_md_eoa>>

Next ==
    \/ H5F_vfd_swmr_init
    \/ InitFinish
    \/ OpenInsertEot
    \/ DirtyPage
    \/ EotBegin
    \/ EotSort
    \/ EotDefer
    \/ EotAlloc
    \/ EotWrite
    \/ H5F__vfd_swmr_construct_write_md_idx
    \/ H5F__vfd_swmr_construct_write_md_hdr
    \/ EotReclaim
    \/ EotFinish
    \/ CloseOrFlushBegin
    \/ FlushFinish
    \/ CloseFinish

Spec ==
    Init /\ [][Next]_vars

TypeOK ==
    /\ pc \in {"start", "opened", "idle", "sort", "defer", "alloc", "write", "idx", "hdr",
               "reclaim", "fin", "closed", "crashed", "failed"}
    /\ op \in {"none", "init", "eot", "flush", "close"}
    /\ mdf_idx_entries_used <= mdf_idx_len
    /\ Len(mdf_idx) = mdf_idx_len


(***************************************************************************)
(* The reader.  H5FD_vfd_swmr_get_tick_and_idx belongs to the reader VFD:  *)
(* a reload reads the header, then the index block the header names, and   *)
(* starts over when the block is no index of the header's tick; a call     *)
(* without reload copies what the last load found.                         *)
(***************************************************************************)
ReaderF(tick, eot) ==
    [file |-> ReaderFile, vfd_swmr_writer |-> FALSE, tick_num |-> tick,
     end_of_tick |-> eot]

\* what no step of the reader touches, the clock apart
notReaderVars ==
    <<writerVars, delayVars, eotHarnessVars, vfd_swmr_md_eoa, end_of_tick,
      schedVars, published, prepVars, calcVars>>

\* variant: the tick of the index block is not compared with the header's
IndexAccepted_any_tick(hdr, idx) ==
    idx.kind = "index"

\* the load accepts the block read at the header's index offset
IndexAccepted(hdr, idx) ==
    idx.kind = "index" /\ idx.tick_num = hdr.tick_num

\* variant: one slot is allocated
CreatedIndex_one_slot ==
    [k \in 1..1 |-> ZeroEntry]

\* the index H5F__vfd_swmr_writer__create_index allocates
CreatedIndex ==
    [k \in 1..entries_in_index |-> ZeroEntry]

\* the copy of the loaded entries into the first slots of the caller's index
CopyIndex(buffer, loaded) ==
    [k \in 1..Len(buffer) |->
        IF k <= Len(loaded)
        THEN [ZeroEntry EXCEPT
                 !.hdf5_page_offset = loaded[k].hdf5_page_offset,
                 !.md_file_page_offset = loaded[k].md_file_page_offset,
                 !.length = loaded[k].length,
                 !.chksum = loaded[k].chksum]
        ELSE buffer[k]]

\* variant: every end of tick is taken for one that sees a new tick
TickChanged_always(tmp, local) ==
    TRUE

\* tmp_tick_num != f->shared->tick_num
TickChanged(tmp, local) ==
    tmp # local

\* variant: a page counts as altered when its length differs
PageAltered_by_length(old_entry, new_entry) ==
    old_entry.length # new_entry.length

\* old_mdf_idx[i].md_file_page_offset != new_mdf_idx[j].md_file_page_offset
PageAltered(old_entry, new_entry) ==
    old_entry.md_file_page_offset # new_entry.md_file_page_offset

\* the merge loop over the old and the new index; i and j count from 0
RECURSIVE DiffMerge(_, _, _, _, _, _, _)
DiffMerge(old, nold, new, nnew, i, j, acc) ==
    IF i < nold /\ j < nnew
    THEN IF old[i + 1].hdf5_page_offset = new[j + 1].hdf5_page_offset
         THEN IF PageAltered(old[i + 1], new[j + 1])
              THEN DiffMerge(old, nold, new, nnew, i + 1, j + 1,
                       [acc EXCEPT
                           !.removed_page = Append(@, new[j + 1].hdf5_page_offset),
                           !.entries_changed = @ + 1])
              ELSE DiffMerge(old, nold, new, nnew, i + 1, j + 1, acc)
         ELSE IF old[i + 1].hdf5_page_offset < new[j + 1].hdf5_page_offset
         THEN DiffMerge(old, nold, new, nnew, i + 1, j,
                  [acc EXCEPT
                      !.removed_page = Append(@, old[i + 1].hdf5_page_offset),
                      !.entries_removed = @ + 1])
         ELSE DiffMerge(old, nold, new, nnew, i, j + 1,
                  [acc EXCEPT !.entries_added = @ + 1])
    ELSE [acc EXCEPT !.i = i, !.j = j]

\* the loop over what is left of the old index
RECURSIVE DiffLeftOvers(_, _, _, _)
DiffLeftOvers(old, nold, i, acc) ==
    IF i < nold
    THEN DiffLeftOvers(old, nold, i + 1,
             [acc EXCEPT !.removed_page = Append(@, old[i + 1].hdf5_page_offset),
                         !.entries_removed = @ + 1])
    ELSE acc

\* the comparison of the old with the new index in the reader end of tick
IndexDiff(old, nold, new, nnew) ==
    LET acc0 == [removed_page |-> <<>>, entries_added |-> 0,
                 entries_removed |-> 0, entries_changed |-> 0, i |-> 0, j |-> 0]
        acc1 == DiffMerge(old, nold, new, nnew, 0, 0, acc0)
        acc2 == [acc1 EXCEPT !.entries_added = @ + (nnew - acc1.j)]
    IN  DiffLeftOvers(old, nold, acc1.i, acc2)

\* variant: page buffer and metadata cache are called for each page in turn
ReaderCall_page_by_page(calls, removed) ==
    LET k == Len(calls)
    IN  IF k >= 2 * Len(removed) THEN [kind |-> "done", page |-> 0]
        ELSE IF k % 2 = 0
        THEN [kind |-> "H5PB_remove_entry", page |-> removed[(k \div 2) + 1]]
        ELSE [kind |-> "H5C_evict_or_refresh_all_entries_in_page",
              page |-> removed[(k \div 2) + 1]]

\* the call the two loops over removed_page make after the calls made so far
ReaderCall(calls, removed) ==
    LET k == Len(calls)
        n == Len(removed)
    IN  IF k < n THEN [kind |-> "H5PB_remove_entry", page |-> removed[k + 1]]
        ELSE IF k < 2 * n
        THEN [kind |-> "H5C_evict_or_refresh_all_entries_in_page",
              page |-> removed[(k - n) + 1]]
        ELSE [kind |-> "done", page |-> 0]

\* the reader state an end of tick is entered with
ReaderSnapshot(outcome) ==
    [outcome |-> outcome,
     tick_num |-> r_tick_num,
     mdf_idx |-> r_mdf_idx,
     mdf_idx_len |-> r_mdf_idx_len,
     mdf_idx_entries_used |-> r_mdf_idx_entries_used,
     old_mdf_idx |-> r_old_mdf_idx,
     old_mdf_idx_len |-> r_old_mdf_idx_len,
     old_mdf_idx_entries_used |-> r_old_mdf_idx_entries_used]

\* the reader VFD is opened on the shadow file and loads header and index
ReaderOpen ==
    /\ rpc = "closed"
    /\ md_fd = "open"
    /\ md_hdr # NoHdr
    /\ rpc' = "open_hdr"
    /\ r_loads' = 0
    /\ UNCHANGED <<r_tick_num, r_mdf_idx, r_mdf_idx_len, r_mdf_idx_entries_used,
                   r_old_mdf_idx, r_old_mdf_idx_len, r_old_mdf_idx_entries_used,
                   r_end_of_tick, r_globals, r_vfd, tmp_tick_num, removed_page,
                   r_calls, r_entry, now, notReaderVars>>

\* the load: read of the header
ReaderLoadHdr ==
    /\ rpc \in {"open_hdr", "eot_hdr"}
    /\ r_vfd' = [r_vfd EXCEPT !.hdr = md_hdr]
    /\ r_loads' = IF r_loads < 2 THEN r_loads + 1 ELSE r_loads
    /\ rpc' = IF rpc = "open_hdr" THEN "open_idx" ELSE "eot_idx"
    /\ UNCHANGED <<r_tick_num, r_mdf_idx, r_mdf_idx_len, r_mdf_idx_entries_used,
                   r_old_mdf_idx, r_old_mdf_idx_len, r_old_mdf_idx_entries_used,
                   r_end_of_tick, r_globals, tmp_tick_num, removed_page,
                   r_calls, r_entry, now, notReaderVars>>

\* the load: read of the index block the header names, or another try
ReaderLoadIdx ==
    /\ rpc \in {"open_idx", "eot_idx"}
    /\ LET idx == IndexAt(md_file, r_vfd.hdr.index_offset, r_vfd.hdr.index_length)
       IN  IF IndexAccepted(r_vfd.hdr, idx)
           THEN /\ r_vfd' = [r_vfd EXCEPT !.idx = idx]
                /\ rpc' = IF rpc = "open_idx" THEN "open_init" ELSE "eot_cmp"
           ELSE /\ r_vfd' = r_vfd
                /\ rpc' = IF rpc = "open_idx" THEN "open_hdr" ELSE "eot_hdr"
    /\ UNCHANGED <<r_tick_num, r_mdf_idx, r_mdf_idx_len, r_mdf_idx_entries_used,
                   r_old_mdf_idx, r_old_mdf_idx_len, r_old_mdf_idx_entries_used,
                   r_end_of_tick, r_globals, tmp_tick_num, removed_page,
                   r_calls, r_entry, r_loads, now, notReaderVars>>

\* H5F_vfd_swmr_init, reader branch
ReaderInit ==
    /\ rpc = "open_init"
    /\ IF r_vfd.idx.num_entries > entries_in_index
       THEN /\ rpc' = "closed"
            /\ UNCHANGED <<r_tick_num, r_mdf_idx, r_mdf_idx_len,
                           r_mdf_idx_entries_used, r_end_of_tick, now>>
       ELSE /\ r_mdf_idx' = CopyIndex(CreatedIndex, r_vfd.idx.entries)
            /\ r_mdf_idx_len' = entries_in_index
            /\ r_mdf_idx_entries_used' = r_vfd.idx.num_entries
            /\ r_tick_num' = r_vfd.hdr.tick_num
            /\ \E curr \in ClockReads(now) :
                /\ now' = curr
                /\ r_end_of_tick' = new_end_of_tick(Timespec(curr), tick_len)
            /\ rpc' = "opened"
    /\ r_globals' = IF r_vfd.idx.num_entries > entries_in_index
                    THEN r_globals
                    ELSE [r_globals EXCEPT !.eot_g = r_end_of_tick']
    /\ UNCHANGED <<r_old_mdf_idx, r_old_mdf_idx_len, r_old_mdf_idx_entries_used,
                   r_vfd, tmp_tick_num, removed_page, r_calls, r_entry, r_loads,
                   notReaderVars>>

\* H5F_open puts the reader's file on the EOT queue of its process
ReaderOpenInsertEot ==
    /\ rpc = "opened"
    /\ r_globals' = H5F_vfd_swmr_insert_entry_eot(r_globals,
                        ReaderF(r_tick_num, r_end_of_tick))
    /\ rpc' = "idle"
    /\ UNCHANGED <<r_tick_num, r_mdf_idx, r_mdf_idx_len, r_mdf_idx_entries_used,
                   r_old_mdf_idx, r_old_mdf_idx_len, r_old_mdf_idx_entries_used,
                   r_end_of_tick, r_vfd, tmp_tick_num, removed_page, r_calls,
                   r_entry, r_loads, now, notReaderVars>>

\* H5F_vfd_swmr_reader_end_of_tick is entered
ReaderEotBegin ==
    /\ rpc = "idle"
    /\ rpc' = "eot_hdr"
    /\ r_entry' = ReaderSnapshot("running")
    /\ r_calls' = <<>>
    /\ removed_page' = <<>>
    /\ r_loads' = 0
    /\ UNCHANGED <<r_tick_num, r_mdf_idx, r_mdf_idx_len, r_mdf_idx_entries_used,
                   r_old_mdf_idx, r_old_mdf_idx_len, r_old_mdf_idx_entries_used,
                   r_end_of_tick, r_globals, r_vfd, tmp_tick_num, now,
                   notReaderVars>>

\* steps 1 and 2 up to the two loops over removed_page
ReaderEotCompare ==
    /\ rpc = "eot_cmp"
    /\ tmp_tick_num' = r_vfd.hdr.tick_num
    /\ IF ~TickChanged(r_vfd.hdr.tick_num, r_tick_num)
       THEN /\ rpc' = "requeue"
            /\ UNCHANGED <<r_mdf_idx, r_mdf_idx_len, r_mdf_idx_entries_used,
                           r_old_mdf_idx, r_old_mdf_idx_len,
                           r_old_mdf_idx_entries_used, removed_page, r_entry>>
       ELSE LET create == r_old_mdf_idx = <<>>
                buffer == IF create THEN CreatedIndex ELSE r_old_mdf_idx
                len    == IF create THEN entries_in_index ELSE r_old_mdf_idx_len
                n      == r_vfd.idx.num_entries
            IN  /\ r_old_mdf_idx' = r_mdf_idx
                /\ r_old_mdf_idx_len' = r_mdf_idx_len
                /\ r_old_mdf_idx_entries_used' = r_mdf_idx_entries_used
                /\ r_mdf_idx_len' = len
                /\ IF n > len
                   THEN /\ r_mdf_idx' = buffer
                        /\ r_mdf_idx_entries_used' =
                               IF create THEN 0 ELSE r_old_mdf_idx_entries_used
                        /\ removed_page' = removed_page
                        /\ r_entry' = [r_entry EXCEPT !.outcome = "failed"]
                        /\ rpc' = "idle"
                   ELSE LET new == CopyIndex(buffer, r_vfd.idx.entries)
                            d   == IndexDiff(r_mdf_idx, r_mdf_idx_entries_used,
                                             new, n)
                        IN  /\ r_mdf_idx' = new
                            /\ r_mdf_idx_entries_used' = n
                            /\ removed_page' = d.removed_page
                            /\ r_entry' = r_entry
                            /\ rpc' = IF d.removed_page = <<>>
                                      THEN "adopt" ELSE "evict"
    /\ UNCHANGED <<r_tick_num, r_end_of_tick, r_globals, r_vfd, r_calls,
                   r_loads, now, notReaderVars>>

\* the first loop over removed_page: one call of H5PB_remove_entry
ReaderEvictPage ==
    /\ rpc = "evict"
    /\ ReaderCall(r_calls, removed_page).kind = "H5PB_remove_entry"
    /\ r_calls' = Append(r_calls, ReaderCall(r_calls, removed_page))
    /\ rpc' = "evict"
    /\ UNCHANGED <<r_tick_num, r_mdf_idx, r_mdf_idx_len, r_mdf_idx_entries_used,
                   r_old_mdf_idx, r_old_mdf_idx_len, r_old_mdf_idx_entries_used,
                   r_end_of_tick, r_globals, r_vfd, tmp_tick_num, removed_page,
                   r_entry, r_loads, now, notReaderVars>>

\* the second loop: one call of H5C_evict_or_refresh_all_entries_in_page
ReaderRefreshCache ==
    /\ rpc = "evict"
    /\ ReaderCall(r_calls, removed_page).kind =
           "H5C_evict_or_refresh_all_entries_in_page"
    /\ r_calls' = Append(r_calls, ReaderCall(r_calls, removed_page))
    /\ rpc' = IF ReaderCall(r_calls', removed_page).kind = "done"
              THEN "adopt" ELSE "evict"
    /\ UNCHANGED <<r_tick_num, r_mdf_idx, r_mdf_idx_len, r_mdf_idx_entries_used,
                   r_old_mdf_idx, r_old_mdf_idx_len, r_old_mdf_idx_entries_used,
                   r_end_of_tick, r_globals, r_vfd, tmp_tick_num, removed_page,
                   r_entry, r_loads, now, notReaderVars>>

\* the new tick is started, the file is taken off the EOT queue and put back
ReaderAdopt ==
    /\ rpc = "adopt"
    /\ r_tick_num' = tmp_tick_num
    /\ \E curr \in ClockReads(now) :
        LET eot == new_end_of_tick(Timespec(curr), tick_len)
            g0  == [r_globals EXCEPT !.eot_g = eot]
            g1  == H5F_vfd_swmr_remove_entry_eot(g0, ReaderFile)
        IN  /\ now' = curr
            /\ r_end_of_tick' = eot
            /\ r_globals' = H5F_vfd_swmr_insert_entry_eot(g1,
                                ReaderF(tmp_tick_num, eot))
    /\ r_entry' = [r_entry EXCEPT !.outcome = "new"]
    /\ rpc' = "idle"
    /\ UNCHANGED <<r_mdf_idx, r_mdf_idx_len, r_mdf_idx_entries_used,
                   r_old_mdf_idx, r_old_mdf_idx_len, r_old_mdf_idx_entries_used,
                   r_vfd, tmp_tick_num, removed_page, r_calls, r_loads,
                   notReaderVars>>

\* the tick has not changed: the file is taken off the EOT queue and put back
ReaderRequeue ==
    /\ rpc = "requeue"
    /\ r_globals' = H5F_vfd_swmr_insert_entry_eot(
                        H5F_vfd_swmr_remove_entry_eot(r_globals, ReaderFile),
                        ReaderF(r_tick_num, r_end_of_tick))
    /\ r_entry' = [r_entry EXCEPT !.outcome = "same"]
    /\ rpc' = "idle"
    /\ UNCHANGED <<r_tick_num, r_mdf_idx, r_mdf_idx_len, r_mdf_idx_entries_used,
                   r_old_mdf_idx, r_old_mdf_idx_len, r_old_mdf_idx_entries_used,
                   r_end_of_tick, r_vfd, tmp_tick_num, removed_page, r_calls,
                   r_loads, now, notReaderVars>>

NextReaderEot ==
    \/ ReaderEotBegin
    \/ ReaderLoadHdr
    \/ ReaderLoadIdx
    \/ ReaderEotCompare
    \/ ReaderEvictPage
    \/ ReaderRefreshCache
    \/ ReaderAdopt
    \/ ReaderRequeue

(***************************************************************************)
(* The reader end of tick on arbitrary pairs of sorted indexes: the reader *)
(* holds one index, the shadow file another, of the same or the next tick. *)
(***************************************************************************)
\* the sorted index of the pages of S, page p at one of its two shadow places
ReaderIndexOf(S, c) ==
    LET o == CHOOSE d \in Orders(S) :
                 \A a, b \in 1..Cardinality(S) : a < b => d[a] < d[b]
    IN  [k \in 1..Cardinality(S) |->
            [hdf5_page_offset |-> o[k],
             md_file_page_offset |-> (2 * o[k]) + c[o[k]],
             length |-> EntryLength(o[k]),
             chksum |-> H5_checksum_metadata(ImageOf(o[k], c[o[k]]))]]

ReaderIndexes ==
    UNION { { ReaderIndexOf(S, c) : c \in [S -> {0, 1}] } : S \in SUBSET Pages }

InitReader ==
    /\ WriterMemoryStart
    /\ max_lag = 1
    /\ DelayIdle
    /\ EotHarnessIdle
    /\ CalcIdle
    /\ md_fd = "open"
    /\ \E old \in { x \in ReaderIndexes : Len(x) <= entries_in_index } :
       \E new \in ReaderIndexes :
       \E T \in 1..2 :
       \E Tnew \in T..(T + 1) :
       \E first \in BOOLEAN :
           /\ Tnew = T => new = old
           /\ md_hdr = HdrImage(Tnew, fs_page_size, Len(new))
           /\ md_file = WriteAt([p \in {} |-> Garbage], fs_page_size,
                                H5FD_MD_INDEX_SIZE(Len(new)),
                                [kind |-> "index", tick_num |-> Tnew,
                                 num_entries |-> Len(new), entries |-> new])
           /\ rpc = "idle"
           /\ r_tick_num = T
           /\ r_mdf_idx = CopyIndex(CreatedIndex, old)
           /\ r_mdf_idx_len = entries_in_index
           /\ r_mdf_idx_entries_used = Len(old)
           /\ r_old_mdf_idx = IF first THEN <<>> ELSE CreatedIndex
           /\ r_old_mdf_idx_len = IF first THEN 0 ELSE entries_in_index
           /\ r_old_mdf_idx_entries_used = 0
    /\ r_end_of_tick = new_end_of_tick(Timespec(ClockStart), tick_len)
    /\ r_globals = H5F_vfd_swmr_insert_entry_eot(
                       [q |-> <<>>, writer_g |-> FALSE,
                        eot_g |-> new_end_of_tick(Timespec(ClockStart), tick_len)],
                       ReaderF(r_tick_num,
                               new_end_of_tick(Timespec(ClockStart), tick_len)))
    /\ r_vfd = [hdr |-> NoHdr, idx |-> Garbage]
    /\ tmp_tick_num = 0
    /\ removed_page = <<>>
    /\ r_calls = <<>>
    /\ r_entry = [outcome |-> "none"]
    /\ r_loads = 0

SpecReader ==
    InitReader /\ [][NextReaderEot]_vars

(***************************************************************************)
(* Writer and reader side by side, on a short session of the writer.       *)
(***************************************************************************)
RWMaxTick ==
    3
RWMaxDirty ==
    2
RWMaxClock ==
    0

WriterStepRW ==
    /\ Next
    /\ tick_num' <= RWMaxTick
    /\ ndirty' <= RWMaxDirty
    /\ now' <= ClockStart + (RWMaxClock * nanosecs_per_tenth_sec)

ReaderStepRW ==
    /\ \/ ReaderOpen
       \/ ReaderInit
       \/ ReaderOpenInsertEot
       \/ NextReaderEot
    /\ now' <= ClockStart + (RWMaxClock * nanosecs_per_tenth_sec)

NextRW ==
    \/ WriterStepRW
    \/ ReaderStepRW

InitRW ==
    /\ Init
    /\ max_lag = 1

SpecRW ==
    InitRW /\ [][NextRW]_vars

(***************************************************************************)
(* The EOT queue of a process that has several files open, some as writer  *)
(* and some as reader.  Of every operation only the part that touches the  *)
(* tick, the end of tick, the queue and the two globals is taken.          *)
(***************************************************************************)
Files ==
    1..NumFiles

ProcessGlobals ==
    [q |-> eot_queue_g, writer_g |-> vfd_swmr_writer_g, eot_g |-> end_of_tick_g]

\* the H5F_t f with the fields the queue reads
FileF(f) ==
    [file |-> f, vfd_swmr_writer |-> eot_files[f].vfd_swmr_writer,
     tick_num |-> eot_files[f].tick_num, end_of_tick |-> eot_files[f].end_of_tick]

SetProcessGlobals(g) ==
    /\ eot_queue_g' = g.q
    /\ vfd_swmr_writer_g' = g.writer_g
    /\ end_of_tick_g' = g.eot_g

\* what no operation on the EOT queue touches
notEotVars ==
    <<writerVars, delayVars, readerVars, vfd_swmr_md_eoa, end_of_tick, published,
      prepVars, calcVars>>

InitEot ==
    /\ WriterStart
    /\ max_lag = 1
    /\ DelayIdle
    /\ ReaderIdle
    /\ CalcIdle
    /\ eot_last = [op |-> "none", file |-> 0]
    /\ eot_files \in [Files -> [vfd_swmr_writer : BOOLEAN,
                                tick_len : 1..MaxTickLen,
                                tick_num : {0},
                                end_of_tick : {ZeroTime},
                                open : {FALSE}]]

\* H5F_vfd_swmr_init: the tick is set and the end of tick is computed
EotInit ==
    \E f \in Files :
    \E curr \in ClockReads(now) :
        LET eot == new_end_of_tick(Timespec(curr), eot_files[f].tick_len)
        IN  /\ ~eot_files[f].open
            /\ eot_files[f].tick_num = 0
            /\ now' = curr
            /\ eot_files' = [eot_files EXCEPT ![f].open = TRUE,
                                              ![f].tick_num = 1,
                                              ![f].end_of_tick = eot]
            /\ end_of_tick_g' = eot
            /\ eot_last' = [op |-> "init", file |-> f]
            /\ UNCHANGED <<eot_queue_g, vfd_swmr_writer_g, notEotVars>>

EotInsert ==
    \E f \in Files :
        /\ eot_files[f].open
        /\ Len(eot_queue_g) < MaxQueue
        /\ SetProcessGlobals(H5F_vfd_swmr_insert_entry_eot(ProcessGlobals, FileF(f)))
        /\ eot_last' = [op |-> "insert", file |-> f]
        /\ UNCHANGED <<eot_files, now, notEotVars>>

EotRemove ==
    \E f \in Files :
        /\ eot_last.op # "none"
        /\ SetProcessGlobals(H5F_vfd_swmr_remove_entry_eot(ProcessGlobals, f))
        /\ eot_last' = [op |-> "remove", file |-> f]
        /\ UNCHANGED <<eot_files, now, notEotVars>>

\* H5F_vfd_swmr_writer_end_of_tick, step 9 and the two queue calls
EotWriterEndOfTick ==
    \E f \in Files :
    \E curr \in ClockReads(now) :
        LET eot == new_end_of_tick(Timespec(curr), eot_files[f].tick_len)
            f1  == [eot_files EXCEPT
                       ![f].tick_num = update_tick_num(eot_files[f].tick_num, TRUE),
                       ![f].end_of_tick = eot]
            g0  == [ProcessGlobals EXCEPT !.eot_g = eot]
            g1  == H5F_vfd_swmr_remove_entry_eot(g0, f)
            g2  == H5F_vfd_swmr_insert_entry_eot(g1,
                       [file |-> f, vfd_swmr_writer |-> f1[f].vfd_swmr_writer,
                        tick_num |-> f1[f].tick_num, end_of_tick |-> eot])
        IN  /\ eot_files[f].open
            /\ eot_files[f].vfd_swmr_writer
            /\ eot_files[f].tick_num < EotMaxTick
            /\ EotFind(eot_queue_g, 1, f) # 0
            /\ now' = curr
            /\ eot_files' = f1
            /\ SetProcessGlobals(g2)
            /\ eot_last' = [op |-> "writer_eot", file |-> f]
            /\ UNCHANGED notEotVars

\* H5F_vfd_swmr_reader_end_of_tick: the tick read is the reader's or a later one
EotReaderEndOfTick ==
    \E f \in Files :
    \E tmp \in eot_files[f].tick_num..(eot_files[f].tick_num + 1) :
    \E curr \in ClockReads(now) :
        LET changed == TickChanged(tmp, eot_files[f].tick_num)
            eot == new_end_of_tick(Timespec(curr), eot_files[f].tick_len)
            f1  == IF changed
                   THEN [eot_files EXCEPT ![f].tick_num = tmp,
                                          ![f].end_of_tick = eot]
                   ELSE eot_files
            g0  == IF changed THEN [ProcessGlobals EXCEPT !.eot_g = eot]
                   ELSE ProcessGlobals
            g1  == H5F_vfd_swmr_remove_entry_eot(g0, f)
            g2  == H5F_vfd_swmr_insert_entry_eot(g1,
                       [file |-> f, vfd_swmr_writer |-> f1[f].vfd_swmr_writer,
                        tick_num |-> f1[f].tick_num,
                        end_of_tick |-> f1[f].end_of_tick])
        IN  /\ eot_files[f].open
            /\ ~eot_files[f].vfd_swmr_writer
            /\ tmp <= EotMaxTick
            /\ changed \/ curr = now
            /\ EotFind(eot_queue_g, 1, f) # 0
            /\ now' = curr
            /\ eot_files' = f1
            /\ SetProcessGlobals(g2)
            /\ eot_last' = [op |-> "reader_eot", file |-> f]
            /\ UNCHANGED notEotVars

\* H5F_vfd_swmr_close_or_flush, closing = FALSE
EotFlush ==
    \E f \in Files :
    \E curr \in ClockReads(now) :
        LET eot == new_end_of_tick(Timespec(curr), eot_files[f].tick_len)
        IN  /\ eot_files[f].open
            /\ eot_files[f].vfd_swmr_writer
            /\ eot_files[f].tick_num < EotMaxTick
            /\ now' = curr
            /\ eot_files' = [eot_files EXCEPT
                   ![f].tick_num = update_tick_num(eot_files[f].tick_num, TRUE),
                   ![f].end_of_tick = eot]
            /\ end_of_tick_g' = eot
            /\ eot_last' = [op |-> "flush", file |-> f]
            /\ UNCHANGED <<eot_queue_g, vfd_swmr_writer_g, notEotVars>>

NextEot ==
    \/ EotInit
    \/ EotInsert
    \/ EotRemove
    \/ EotWriterEndOfTick
    \/ EotReaderEndOfTick
    \/ EotFlush

SpecEot ==
    InitEot /\ [][NextEot]_vars

(***************************************************************************)
(* The delay predicate on arbitrary sorted indexes.                        *)
(***************************************************************************)
\* the sorted index that holds the pages of S with the given delayed_flush
IndexOf(S, df) ==
    LET o == CHOOSE c \in Orders(S) :
                 \A a, b \in 1..Cardinality(S) : a < b => c[a] < c[b]
    IN  [k \in 1..Cardinality(S) |->
            [hdf5_page_offset |-> o[k], md_file_page_offset |-> o[k] + 1,
             length |-> EntryLength(o[k]), chksum |-> 0, entry_ptr |-> NULL,
             delayed_flush |-> df[o[k]]]]

DelayIndexes ==
    UNION { { IndexOf(S, df) : df \in [S -> 0..MaxDelay] } : S \in SUBSET Pages }

\* value *untilp holds before the call
UntilBefore ==
    MaxDelay + 1

InitDelay ==
    /\ WriterStart
    /\ max_lag = 1
    /\ EotHarnessIdle
    /\ CalcIdle
    /\ ReaderIdle
    /\ dw_out = [ret |-> "none", untilp |-> UntilBefore]
    /\ \E idx \in DelayIndexes :
       \E used \in 0..Len(idx) :
       \E tick \in 1..MaxTick :
       \E lag \in 1..MaxLagBound :
       \E page \in Pages :
           dw_in = [idx |-> idx, used |-> used, tick |-> tick, lag |-> lag,
                    page |-> page, untilp |-> UntilBefore]

DelayCall ==
    /\ dw_out.ret = "none"
    /\ dw_out' = H5F_vfd_swmr_writer__delay_write(dw_in.idx, dw_in.used,
                     dw_in.tick, dw_in.lag, dw_in.page, dw_in.untilp)
    /\ UNCHANGED <<dw_in, writerVars, timeVars, schedVars, vfd_swmr_md_eoa,
                   eotHarnessVars, readerVars, published, prepVars, calcVars>>

NextDelay ==
    DelayCall

SpecDelay ==
    InitDelay /\ [][NextDelay]_vars

(***************************************************************************)
(* A session of the writer as the library runs it: a flush or a close is   *)
(* preceded by H5F_vfd_swmr_writer__prep_for_flush_or_close, which forces  *)
(* an end of tick and then calls H5F__vfd_swmr_writer__wait_a_tick, a      *)
(* sleep of one tick followed by an end of tick, while the delayed write   *)
(* list of the page buffer is not empty.  The time slept is not part of    *)
(* the state; the end of tick that follows reads the clock.                *)
(***************************************************************************)
SessMaxDirty ==
    2

\* the prep is entered; the end of tick it forces comes next
H5F_vfd_swmr_writer__prep_for_flush_or_close ==
    /\ pc = "idle"
    /\ prep = "none"
    /\ tick_num + max_lag < MaxTick
    /\ prep' = "forced"
    /\ waits' = 0
    /\ prep_entry' = [tick_num |-> tick_num, dwl |-> dwl]
    /\ UNCHANGED <<writerVars, timeVars, schedVars, vfd_swmr_md_eoa, published,
                   otherVars, dwl>>

\* the loop of the prep finds delayed writes: wait_a_tick sleeps; its end of
\* tick comes next
H5F__vfd_swmr_writer__wait_a_tick ==
    /\ pc = "idle"
    /\ prep = "loop"
    /\ dwl_pending(dwl)
    /\ prep' = "wait"
    /\ waits' = waits + 1
    /\ UNCHANGED <<writerVars, timeVars, schedVars, vfd_swmr_md_eoa, published,
                   otherVars, dwl, prep_entry>>

\* the loop of the prep finds no delayed write: the prep returns
PrepReturn ==
    /\ pc = "idle"
    /\ prep = "loop"
    /\ ~dwl_pending(dwl)
    /\ prep' = "done"
    /\ UNCHANGED <<writerVars, timeVars, schedVars, vfd_swmr_md_eoa, published,
                   otherVars, dwl, waits, prep_entry>>

\* a step of the prep and of the end of ticks it runs
PrepStep ==
    \/ (prep \in {"forced", "wait"} /\ EotBegin)
    \/ (prep \in {"forced", "wait"}
            /\ \/ EotSort
               \/ EotDefer
               \/ EotAlloc
               \/ EotWrite
               \/ H5F__vfd_swmr_construct_write_md_idx
               \/ H5F__vfd_swmr_construct_write_md_hdr
               \/ EotReclaim
               \/ EotFinish)
    \/ H5F__vfd_swmr_writer__wait_a_tick
    \/ PrepReturn

NextSession ==
    \/ H5F_vfd_swmr_init
    \/ InitFinish
    \/ OpenInsertEot
    \/ (prep = "none" /\ ndirty < SessMaxDirty /\ DirtyPage)
    \/ (prep \in {"none", "forced", "wait"} /\ EotBegin)
    \/ EotSort
    \/ EotDefer
    \/ EotAlloc
    \/ EotWrite
    \/ H5F__vfd_swmr_construct_write_md_idx
    \/ H5F__vfd_swmr_construct_write_md_hdr
    \/ EotReclaim
    \/ EotFinish
    \/ H5F_vfd_swmr_writer__prep_for_flush_or_close
    \/ H5F__vfd_swmr_writer__wait_a_tick
    \/ PrepReturn
    \/ (prep = "done" /\ CloseOrFlushBegin)
    \/ FlushFinish
    \/ CloseFinish

SpecSession ==
    Init /\ [][NextSession]_vars

\* the prep runs in the thread that called it and is not suspended for ever
SpecSessionLive ==
    SpecSession /\ WF_vars(PrepStep)

(***************************************************************************)
(* A step of H5F_update_vfd_swmr_metadata_file fails during a writer end   *)
(* of tick: the allocation of a deferred-free record, H5MV_alloc, the seek *)
(* or write of an image, of the index or of the header.  HGOTO_ERROR       *)
(* leaves the function, H5F_vfd_swmr_writer_end_of_tick leaves in turn,    *)
(* and FAIL is returned with the memory and the shadow file as the steps   *)
(* before the failing one left them.  The failing call has written         *)
(* nothing.                                                                *)
(***************************************************************************)
EotFail ==
    /\ op = "eot"
    /\ pc \in {"defer", "alloc", "write", "idx", "hdr"}
    /\ pc = "defer" => mdf_idx[ix].md_file_page_offset # 0
    /\ pc' = "failed"
    /\ UNCHANGED <<op, max_lag, tick_num, mdf_idx, mdf_idx_len,
                   mdf_idx_entries_used, writer_index_offset, shadow_defrees,
                   md_fd, mv_alloc, md_hdr, md_file, tl, num_entries,
                   idx_entries_added, ix, ndirty, wlog, pubs, freed, hdr_ticks,
                   presort, replaced, last_done, last_write, pub_idx, published,
                   restVars, timeVars, schedVars, vfd_swmr_md_eoa>>

NextFail ==
    \/ Next
    \/ EotFail

SpecFail ==
    Init /\ [][NextFail]_vars

RetryMaxTick ==
    2

RetryMaxDirty ==
    2

RetryMaxClock ==
    0

MaxRetries ==
    1

\* H5F_vfd_swmr_writer_end_of_tick has returned FAIL: the file is as the failing
\* step left it, its entry still on the EOT queue with the expired deadline, so
\* that the next API call runs the end of tick again
EotReturnFail ==
    /\ pc = "failed"
    /\ eot_retries < MaxRetries
    /\ eot_retries' = eot_retries + 1
    /\ pc' = "idle"
    /\ op' = "none"
    /\ UNCHANGED <<max_lag, tick_num, mdf_idx, mdf_idx_len,
                   mdf_idx_entries_used, writer_index_offset, shadow_defrees,
                   md_fd, mv_alloc, md_hdr, md_file, tl, num_entries,
                   idx_entries_added, ix, ndirty, wlog, pubs, freed, hdr_ticks,
                   presort, replaced, last_done, last_write, pub_idx, published,
                   delayVars, eotHarnessVars, readerVars, calc_in, calc_out, wt,
                   prepVars, timeVars, schedVars, vfd_swmr_md_eoa>>

\* the writer whose end of tick may fail and be run again
WriterStepRetry ==
    /\ \/ NextFail
       \/ EotReturnFail
    /\ tick_num' <= RetryMaxTick
    /\ ndirty' <= RetryMaxDirty
    /\ now' <= ClockStart + (RetryMaxClock * nanosecs_per_tenth_sec)

SpecRetry ==
    InitRW /\ [][WriterStepRetry]_vars

\* the writer whose end of tick may fail, and a reader of its shadow file
NextRWFail ==
    \/ NextRW
    \/ EotFail

SpecRWFail ==
    InitRW /\ [][NextRWFail]_vars

(***************************************************************************)
(* The arithmetic of the tick length and of the index length, applied to   *)
(* arguments the sessions above do not reach: tick lengths up to           *)
(* MaxConvTickLen tenths of a second, and index lengths near 1, near half  *)
(* of UINT32_MAX and near UINT32_MAX.                                      *)
(***************************************************************************)
MaxConvTickLen ==
    64

MaxIdxLenSpread ==
    20

ConvLengths ==
    (1..MaxIdxLenSpread)
        \cup { (UINT32_MAX \div 2) - k : k \in 0..MaxIdxLenSpread }
        \cup { (UINT32_MAX \div 2) + k : k \in 1..MaxIdxLenSpread }
        \cup { UINT32_MAX - k : k \in 0..MaxIdxLenSpread }

NoResult ==
    [done |-> FALSE, ts |-> ZeroTime, val |-> 0]

InitCalc ==
    /\ WriterStart
    /\ max_lag = 1
    /\ DelayIdle
    /\ EotHarnessIdle
    /\ ReaderIdle
    /\ calc_out = NoResult
    /\ wt = WaitIdle
    /\ eot_retries = 0
    /\ \/ \E t \in 0..MaxConvTickLen :
          \E c \in ClockReads(ClockStart) :
              calc_in = [fn |-> "deadline", arg |-> t, clock |-> c]
       \/ \E t \in 0..MaxConvTickLen :
              calc_in = [fn |-> "sleep", arg |-> t, clock |-> 0]
       \/ \E n \in ConvLengths :
              calc_in = [fn |-> "enlarge", arg |-> n, clock |-> 0]

CalcUnchanged ==
    UNCHANGED <<calc_in, wt, eot_retries, writerVars, timeVars, schedVars, vfd_swmr_md_eoa,
                delayVars, eotHarnessVars, readerVars, published, prepVars>>

\* H5F__vfd_swmr_update_end_of_tick_and_tick_num computes the deadline
CalcDeadline ==
    /\ calc_in.fn = "deadline"
    /\ ~calc_out.done
    /\ calc_out' = [done |-> TRUE,
                    ts |-> new_end_of_tick(Timespec(calc_in.clock), calc_in.arg),
                    val |-> 0]
    /\ CalcUnchanged

\* H5F__vfd_swmr_writer__wait_a_tick computes the time to sleep
CalcSleep ==
    /\ calc_in.fn = "sleep"
    /\ ~calc_out.done
    /\ calc_out' = [done |-> TRUE, ts |-> wait_a_tick_req(calc_in.arg), val |-> 0]
    /\ CalcUnchanged

\* vfd_swmr_enlarge_shadow_index computes the new length
CalcEnlarge ==
    /\ calc_in.fn = "enlarge"
    /\ ~calc_out.done
    /\ calc_out' = [done |-> TRUE, ts |-> ZeroTime,
                    val |-> new_mdf_idx_len(calc_in.arg)]
    /\ CalcUnchanged

NextCalc ==
    \/ CalcDeadline
    \/ CalcSleep
    \/ CalcEnlarge

SpecCalc ==
    InitCalc /\ [][NextCalc]_vars

(***************************************************************************)
(* H5F__vfd_swmr_writer__wait_a_tick on its own.  HDnanosleep returns 0    *)
(* when the time asked has passed; it returns -1 with errno EINTR and the  *)
(* time left in rem when a signal interrupts it, and -1 with another errno *)
(* and rem untouched when it fails otherwise, as it does for a request     *)
(* that is not a valid time.  The times are in tenths of a second.  rem is *)
(* not initialized: before nanosleep has written it, it holds any value,   *)
(* a valid time or not.  The end of tick the function runs is the one of   *)
(* the writer above; here it only succeeds or fails.                       *)
(***************************************************************************)
MaxWaitLen ==
    3

MaxSignals ==
    2

\* a struct timespec that is not a time: tv_nsec outside 0..999999999
InvalidTime ==
    -1

\* what an uninitialized struct timespec may hold
Indeterminate ==
    (0..MaxWaitLen) \cup {InvalidTime}

\* the results of HDnanosleep(req, rem): [result, errno, rem]
HDnanosleep(req, rem, signals) ==
    IF req = InvalidTime
    THEN {[result |-> -1, errno |-> "EINVAL", rem |-> rem]}
    ELSE {[result |-> 0, errno |-> "none", rem |-> rem]}
         \cup {[result |-> -1, errno |-> "EINTR", rem |-> left] :
                  left \in IF signals < MaxSignals THEN 0..req ELSE {}}
         \cup {[result |-> -1, errno |-> "EFAULT", rem |-> rem]}

InitWait ==
    /\ WriterStart
    /\ max_lag = 1
    /\ DelayIdle
    /\ EotHarnessIdle
    /\ ReaderIdle
    /\ calc_in = [fn |-> "none", arg |-> 0, clock |-> 0]
    /\ calc_out = NoResult
    /\ eot_retries = 0
    /\ \E tlen \in 1..MaxWaitLen :
       \E garbage \in Indeterminate :
           wt = [WaitIdle EXCEPT !.pc = "entry", !.req = tlen, !.rem = garbage]

WaitUnchanged ==
    UNCHANGED <<calc_in, calc_out, eot_retries, writerVars, timeVars, schedVars,
                vfd_swmr_md_eoa, delayVars, eotHarnessVars, readerVars,
                published, prepVars>>

\* result = HDnanosleep(&req, &rem), the call before the loop
WaitSleep ==
    /\ wt.pc = "entry"
    /\ \E r \in HDnanosleep(wt.req, wt.rem, wt.signals) :
           wt' = [wt EXCEPT !.pc = "loop", !.result = r.result,
                            !.errno = r.errno, !.rem = r.rem,
                            !.signals = IF r.errno = "EINTR" THEN @ + 1 ELSE @]
    /\ WaitUnchanged

\* while ( result == -1 ) { req = rem; result = HDnanosleep(&req, &rem); }
WaitRetry ==
    /\ wt.pc = "loop"
    /\ wt.result = -1
    /\ \E r \in HDnanosleep(wt.rem, wt.rem, wt.signals) :
           wt' = [wt EXCEPT !.req = wt.rem, !.result = r.result,
                            !.errno = r.errno, !.rem = r.rem,
                            !.signals = IF r.errno = "EINTR" THEN @ + 1 ELSE @]
    /\ WaitUnchanged

\* the loop is left: if ( result != 0 ) the function fails, otherwise it runs
\* the writer end of tick and returns what that returns
WaitEndOfTick ==
    /\ wt.pc = "loop"
    /\ wt.result # -1
    /\ IF wt.result # 0
       THEN wt' = [wt EXCEPT !.pc = "returned", !.ret_value = "FAIL"]
       ELSE \E eot \in {"SUCCEED", "FAIL"} :
                wt' = [wt EXCEPT !.pc = "returned", !.eots = @ + 1,
                                 !.ret_value = eot]
    /\ WaitUnchanged

NextWait ==
    \/ WaitSleep
    \/ WaitRetry
    \/ WaitEndOfTick

SpecWait ==
    InitWait /\ [][NextWait]_vars

\* the thread that called the function keeps running it
SpecWaitLive ==
    SpecWait /\ WF_vars(NextWait)

(***************************************************************************)
(* Properties.                                                             *)
(***************************************************************************)

\* C1: a shadow byte range referenced by the header or index published with
\* tick T' is never handed to H5MV_free while the writer's tick T satisfies
\* T - T' <= max_lag; in particular the range of the published index is not.
C1_NoReferencedRangeFreed ==
    \A f \in freed :
        \A t \in 1..MaxTick :
            (t <= f.at_tick /\ f.at_tick - t <= max_lag)
                => \A r \in pubs[t] : ~Overlap(r, <<f.offset, f.length>>)

\* what is found at the index offset and length the header on disk names
HdrIndex ==
    IndexAt(md_file, md_hdr.index_offset, md_hdr.index_length)

\* the header on disk and the block it names are the pair that was published
PairPublished ==
    /\ HdrIndex.kind = "index"
    /\ md_hdr.tick_num = pub_idx.tick_num
    /\ HdrIndex.tick_num = pub_idx.tick_num
    /\ HdrIndex.entries = pub_idx.entries

\* C2 as stated: in every reachable state of the writer, also between the
\* index write and the header write, the header on disk names the index that
\* was published together with it.
C2_PairInEveryState ==
    md_hdr # NoHdr => PairPublished

\* C2 amended: whenever the last write to the shadow file was a header write
\* the header on disk names the index that was published together with it.
C2_PairAfterHeaderWrite ==
    last_write = "header" => PairPublished

C2_Witness ==
    /\ last_write = "header"
    /\ pc = "idle"
    /\ Len(pub_idx.entries) >= 2
    /\ md_hdr.index_offset # fs_page_size

\* C3: in every publication the image writes precede the index write, the
\* index write precedes the header write, and the header write is the last.
C3_WriteOrder ==
    /\ \A a, b \in 1..Len(wlog) :
           a < b => /\ wlog[a] # "header"
                    /\ (wlog[a] = "index" => wlog[b] = "header")
    /\ (wlog # <<>> /\ pc \in {"idle", "closed", "reclaim", "fin"})
           => /\ Len(wlog) >= 2
              /\ wlog[Len(wlog)] = "header"
              /\ wlog[Len(wlog) - 1] = "index"

C3_Witness ==
    /\ pc = "idle"
    /\ last_done = "eot"
    /\ Len(wlog) >= 4
    /\ wlog[1] = "image"
    /\ wlog[2] = "image"

\* C4: after a successful writer end of tick the header and the index at the
\* header's index offset carry the same tick, the header's index offset is
\* writer_index_offset and its index length is the encoded length of the
\* index just written.
C4_HeaderMatchesIndexAfterEot ==
    (pc = "idle" /\ last_done = "eot")
        => /\ HdrIndex.kind = "index"
           /\ HdrIndex.tick_num = md_hdr.tick_num
           /\ md_hdr.index_offset = writer_index_offset
           /\ HdrIndex.num_entries = num_entries
           /\ md_hdr.index_length =
                  H5_SIZEOF_MAGIC + 8 + 4 + (16 * num_entries) + 4

C4_Witness ==
    /\ pc = "idle"
    /\ last_done = "eot"
    /\ num_entries >= 3
    /\ writer_index_offset # fs_page_size

\* C5: whenever an end of tick running with tick t hands a deferred-free
\* entry to the free-space manager, t - entry.tick_created > max_lag.
C5_ReclaimOnlyOlderThanMaxLag ==
    \A f \in freed : f.at_tick - f.tick_num > max_lag

\* C6: when an end of tick republishes an entry that already has a shadow
\* location, the replaced range (old md_file_page_offset * page size, old
\* length), stamped with the current tick, is on the deferred-free queue
\* before the new range is allocated and before the next header write.
C6_DeferBeforeAlloc ==
    /\ (pc = "alloc" /\ mdf_idx[ix].md_file_page_offset # 0)
           => /\ shadow_defrees # <<>>
              /\ Head(shadow_defrees) =
                     [offset |-> mdf_idx[ix].md_file_page_offset * fs_page_size,
                      length |-> mdf_idx[ix].length,
                      tick_num |-> tick_num]
    /\ (op = "eot" /\ pc \in {"alloc", "write", "defer", "idx", "hdr"})
           => \A r \in replaced :
                  \E k \in 1..Len(shadow_defrees) : shadow_defrees[k] = r

C6_Witness ==
    /\ pc = "alloc"
    /\ mdf_idx[ix].md_file_page_offset # 0
    /\ replaced # {}

\* C7: immediately before the header write of an end of tick the first
\* num_entries slots of the index are in strictly increasing order of
\* hdf5_page_offset, whatever order the page buffer left them in.
C7_SortedBeforeHeader ==
    (op = "eot" /\ pc = "hdr")
        => \A k \in 1..(num_entries - 1) :
               mdf_idx[k].hdf5_page_offset < mdf_idx[k + 1].hdf5_page_offset

C7_Witness ==
    /\ op = "eot"
    /\ pc = "hdr"
    /\ \E k \in 1..(Len(presort) - 1) : presort[k] > presort[k + 1]

DelayHit ==
    { k \in 1..dw_in.used : dw_in.idx[k].hdf5_page_offset = dw_in.page }

\* C9: on success *untilp is 0 or lies in [tick, tick + max_lag]; when the
\* entry's delayed_flush exceeds tick + max_lag the call fails and *untilp is
\* not written.
C9_DelayInRange ==
    /\ dw_out.ret = "SUCCEED"
           => \/ dw_out.untilp = 0
              \/ /\ dw_in.tick <= dw_out.untilp
                 /\ dw_out.untilp <= dw_in.tick + dw_in.lag
    /\ (dw_out.ret # "none" /\
        \E k \in DelayHit : dw_in.idx[k].delayed_flush > dw_in.tick + dw_in.lag)
           => /\ dw_out.ret = "FAIL"
              /\ dw_out.untilp = dw_in.untilp

C9_Witness ==
    /\ dw_out.ret = "FAIL"
    /\ \E k \in DelayHit : dw_in.idx[k].delayed_flush > dw_in.tick + dw_in.lag

\* C10: the delay is tick + max_lag when the page has no used entry, the
\* entry's delayed_flush when that is >= tick, and 0 when it is < tick.
C10_DelayValue ==
    dw_out.ret = "SUCCEED"
        => /\ DelayHit = {} => dw_out.untilp = dw_in.tick + dw_in.lag
           /\ \A k \in DelayHit :
                  dw_out.untilp = IF dw_in.idx[k].delayed_flush >= dw_in.tick
                                  THEN dw_in.idx[k].delayed_flush
                                  ELSE 0

C10_Witness ==
    /\ dw_out.ret = "SUCCEED"
    /\ \E k \in DelayHit : dw_in.idx[k].delayed_flush = dw_in.tick
    /\ dw_in.used < Len(dw_in.idx)

\* pages among the first n entries of an index
IndexPages(index, n) ==
    { index[k].hdf5_page_offset : k \in 1..n }

\* shadow page of page p among the first n entries of an index
ShadowPageOf(index, n, p) ==
    (CHOOSE k \in 1..n : index[k].hdf5_page_offset = p)

\* the reader end of tick has gone past the comparison of the ticks
ReaderCompared ==
    \/ rpc \in {"requeue", "evict", "adopt"}
    \/ rpc = "idle" /\ r_entry.outcome \in {"same", "new", "failed"}

\* C11: when the tick read from the shadow header equals the reader's tick,
\* the reader end of tick calls neither H5PB_remove_entry nor the metadata
\* cache and leaves the reader's tick, its current index and its previous
\* index as they were; so any number of such calls is as good as one.
C11_SameTickNoEffect ==
    (ReaderCompared /\ tmp_tick_num = r_entry.tick_num)
        => /\ r_calls = <<>>
           /\ r_tick_num = r_entry.tick_num
           /\ r_mdf_idx = r_entry.mdf_idx
           /\ r_mdf_idx_len = r_entry.mdf_idx_len
           /\ r_mdf_idx_entries_used = r_entry.mdf_idx_entries_used
           /\ r_old_mdf_idx = r_entry.old_mdf_idx
           /\ r_old_mdf_idx_len = r_entry.old_mdf_idx_len
           /\ r_old_mdf_idx_entries_used = r_entry.old_mdf_idx_entries_used

C11_Witness ==
    /\ rpc = "idle"
    /\ r_entry.outcome = "same"
    /\ r_mdf_idx_entries_used >= 1
    /\ HdrIndex.kind = "index"
    /\ HdrIndex.num_entries = r_mdf_idx_entries_used
    /\ md_hdr.tick_num = r_tick_num

\* the reader has compared an old with a new index
ReaderDiffed ==
    \/ rpc \in {"evict", "adopt"}
    \/ rpc = "idle" /\ r_entry.outcome = "new"

\* pages in both indexes at different shadow pages
ChangedPages ==
    { p \in IndexPages(r_old_mdf_idx, r_old_mdf_idx_entries_used) \cap
            IndexPages(r_mdf_idx, r_mdf_idx_entries_used) :
        r_old_mdf_idx[ShadowPageOf(r_old_mdf_idx, r_old_mdf_idx_entries_used, p)]
            .md_file_page_offset #
        r_mdf_idx[ShadowPageOf(r_mdf_idx, r_mdf_idx_entries_used, p)]
            .md_file_page_offset }

\* pages in the old index only
RemovedPages ==
    IndexPages(r_old_mdf_idx, r_old_mdf_idx_entries_used) \
        IndexPages(r_mdf_idx, r_mdf_idx_entries_used)

\* pages in the new index only
AddedPages ==
    IndexPages(r_mdf_idx, r_mdf_idx_entries_used) \
        IndexPages(r_old_mdf_idx, r_old_mdf_idx_entries_used)

\* positions of r_calls that are calls of the given kind
CallsOf(kind) ==
    { k \in 1..Len(r_calls) : r_calls[k].kind = kind }

\* C12: the pages the reader end of tick evicts are the pages in both indexes
\* whose md_file_page_offset differs and the pages in the old index only, each
\* of them once; no page that is only in the new index or in neither is evicted.
C12_EvictsChangedAndRemoved ==
    ReaderDiffed
        => /\ { removed_page[k] : k \in 1..Len(removed_page) } =
                  ChangedPages \cup RemovedPages
           /\ Len(removed_page) = Cardinality(ChangedPages \cup RemovedPages)
           /\ { r_calls[k].page : k \in CallsOf("H5PB_remove_entry") }
                  \subseteq ChangedPages \cup RemovedPages
           /\ \A a, b \in CallsOf("H5PB_remove_entry") :
                  r_calls[a].page = r_calls[b].page => a = b
           /\ rpc \in {"adopt", "idle"}
                  => { r_calls[k].page : k \in CallsOf("H5PB_remove_entry") } =
                         ChangedPages \cup RemovedPages

C12_Witness ==
    /\ rpc = "idle"
    /\ r_entry.outcome = "new"
    /\ ChangedPages # {}
    /\ RemovedPages # {}
    /\ AddedPages # {}
    /\ Cardinality(CallsOf("H5PB_remove_entry")) = 2

\* C13: in a reader end of tick every call of H5PB_remove_entry is made before
\* the first call of H5C_evict_or_refresh_all_entries_in_page, and the two
\* loops visit the same pages.
C13_PageBufferBeforeCache ==
    /\ \A a, b \in 1..Len(r_calls) :
           (a < b /\ r_calls[a].kind = "H5C_evict_or_refresh_all_entries_in_page")
               => r_calls[b].kind = "H5C_evict_or_refresh_all_entries_in_page"
    /\ CallsOf("H5C_evict_or_refresh_all_entries_in_page") # {}
           => /\ Cardinality(CallsOf("H5PB_remove_entry")) = Len(removed_page)
              /\ \A k \in 1..Len(removed_page) : r_calls[k].page = removed_page[k]
    /\ (ReaderDiffed /\ rpc \in {"adopt", "idle"})
           => /\ Len(r_calls) = 2 * Len(removed_page)
              /\ \A k \in 1..Len(removed_page) :
                     /\ r_calls[k].kind = "H5PB_remove_entry"
                     /\ r_calls[k + Len(removed_page)].kind =
                            "H5C_evict_or_refresh_all_entries_in_page"
                     /\ r_calls[k].page = r_calls[k + Len(removed_page)].page

C13_Witness ==
    /\ rpc = "idle"
    /\ r_entry.outcome = "new"
    /\ Len(removed_page) >= 2
    /\ Len(r_calls) = 4

\* the tick and the used entries the reader holds
ReaderPair ==
    [tick_num |-> r_tick_num,
     entries |-> [k \in 1..r_mdf_idx_entries_used |-> EncodeEntry(r_mdf_idx[k])]]

\* C14: whatever the writer publishes while a reader end of tick (or the
\* reader's open) runs, the index the reader ends up with is one that was
\* published with the tick the reader ends up with; a publication between the
\* reader's header read and its index read makes the reader load again.
C14_ReaderAdoptsPublishedPair ==
    (rpc = "idle" /\ r_entry.outcome \in {"none", "new", "same"})
        => ReaderPair \in published

C14_Witness ==
    /\ rpc = "idle"
    /\ r_entry.outcome = "new"
    /\ r_loads >= 2
    /\ r_mdf_idx_entries_used >= 1
    /\ ReaderPair \in published

\* C15: when the index is enlarged, the range put on the deferred-free queue
\* is the range the index had before (the old writer_index_offset, the encoded
\* size of the old length), stamped with the current tick.
C15_OldIndexRangeDeferred ==
    [][(mdf_idx_len' > entries_in_index /\ mdf_idx_len' # mdf_idx_len)
          => \E k \in 1..Len(shadow_defrees') :
                 shadow_defrees'[k] =
                     [offset |-> writer_index_offset,
                      length |-> H5FD_MD_INDEX_SIZE(mdf_idx_len' \div 2),
                      tick_num |-> tick_num]]_vars

\* a struct timespec as a number of units
Nanos(t) ==
    (t.tv_sec * nanosecs_per_second) + t.tv_nsec

\* C16: after any sequence of calls of H5F_vfd_swmr_insert_entry_eot and
\* H5F_vfd_swmr_remove_entry_eot the EOT queue is in ascending order of
\* end_of_tick from head to tail.
C16_QueueOrderedByDeadline ==
    \A k \in 1..(Len(eot_queue_g) - 1) :
        Nanos(eot_queue_g[k].end_of_tick) <= Nanos(eot_queue_g[k + 1].end_of_tick)

C16_Witness ==
    /\ eot_last.op = "insert"
    /\ Len(eot_queue_g) >= 2
    /\ eot_queue_g[1].vfd_swmr_file = eot_last.file
    /\ eot_queue_g[2].vfd_swmr_file # eot_last.file
    /\ Nanos(eot_queue_g[1].end_of_tick) < Nanos(eot_queue_g[2].end_of_tick)

\* C17: after insert, remove, writer and reader end of tick, flush and open,
\* vfd_swmr_writer_g is TRUE exactly when the queue is not empty and its head
\* is a writer, and end_of_tick_g is the end_of_tick of the head whenever the
\* queue is not empty.
C17_GlobalsMatchHead ==
    eot_last.op \in {"insert", "remove", "writer_eot", "reader_eot", "flush"}
        => /\ vfd_swmr_writer_g =
                  (eot_queue_g # <<>> /\ eot_queue_g[1].vfd_swmr_writer)
           /\ eot_queue_g # <<>> => end_of_tick_g = eot_queue_g[1].end_of_tick

\* queue q without its entry at position k
WithoutEntry(q, k) ==
    SubSeq(q, 1, k - 1) \o SubSeq(q, k + 1, Len(q))

\* q1 is q0 with one entry put immediately after the rightmost entry of q0
\* whose end_of_tick is not later than the entry's, at the head if there is none
InsertedAfterRightmost(q0, q1) ==
    \E pos \in 1..Len(q1) :
        /\ WithoutEntry(q1, pos) = q0
        /\ pos > 1 => Nanos(q1[pos - 1].end_of_tick) <= Nanos(q1[pos].end_of_tick)
        /\ \A k \in (pos + 1)..Len(q1) :
               Nanos(q1[k].end_of_tick) > Nanos(q1[pos].end_of_tick)

\* C18: H5F_vfd_swmr_insert_entry_eot puts the new entry immediately after
\* the rightmost entry whose end_of_tick is <= the new one, at the head when
\* there is none; the entries that were on the queue keep their order.
C18_InsertAfterRightmost ==
    [][/\ Len(eot_queue_g') = Len(eot_queue_g) + 1
           => InsertedAfterRightmost(eot_queue_g, eot_queue_g')
       /\ (Len(eot_queue_g') = Len(eot_queue_g) /\ eot_queue_g' # eot_queue_g)
           => \E k \in 1..Len(eot_queue_g) :
                  InsertedAfterRightmost(WithoutEntry(eot_queue_g, k),
                                         eot_queue_g')]_vars

C18_Witness ==
    /\ eot_last.op = "insert"
    /\ Len(eot_queue_g) = 3
    /\ eot_queue_g[2].vfd_swmr_file = eot_last.file
    /\ eot_queue_g[1].vfd_swmr_file # eot_last.file
    /\ eot_queue_g[3].vfd_swmr_file # eot_last.file
    /\ eot_queue_g[1].end_of_tick = eot_queue_g[2].end_of_tick
    /\ Nanos(eot_queue_g[2].end_of_tick) < Nanos(eot_queue_g[3].end_of_tick)

\* what C19 says of the writer's memory and of the size of the shadow file
OpenedLayout ==
    /\ tick_num = 1
    /\ 0 \in mv_alloc
    /\ writer_index_offset = fs_page_size
    /\ vfd_swmr_md_eoa = md_pages_reserved * fs_page_size

\* the shadow file holds a header of tick 1 that names an empty index
OpenedHeader ==
    /\ md_hdr.tick_num = 1
    /\ md_hdr.index_offset = fs_page_size
    /\ HdrIndex.kind = "index"
    /\ HdrIndex.num_entries = 0

\* C19 as stated: when H5F_vfd_swmr_init has returned for a writer, the tick
\* is 1, the header page is allocated at offset 0, writer_index_offset is the
\* page size, the shadow file has md_pages_reserved pages, and the shadow file
\* holds a header of tick 1 that names an empty index.
C19_OpenedWithEmptyIndex ==
    pc = "opened" => (OpenedLayout /\ OpenedHeader)

\* C19 amended: the header and the empty index are on the shadow file when an
\* existing file was opened (the open wrote them); when the file was created
\* the open writes nothing and the shadow file holds no header.
C19_OpenedExistingWithEmptyIndex ==
    pc = "opened"
        => /\ OpenedLayout
           /\ wlog # <<>> => OpenedHeader
           /\ wlog = <<>> => md_hdr = NoHdr

C19_Witness ==
    /\ pc = "opened"
    /\ wlog = <<"index", "header">>
    /\ OpenedHeader

\* C20: a flush writes an index with no entries and then a header with no
\* entries that carries the current tick, then adds 1 to the tick and computes
\* a new end of tick from the clock; the index in memory, its used count and
\* the deferred-free queue are as before.
C20_FlushPublishesEmptyAndAdvances ==
    /\ [](  (pc = "idle" /\ last_done = "flush")
                => /\ wlog = <<"index", "header">>
                   /\ md_hdr.tick_num = tick_num - 1
                   /\ md_hdr.index_length = H5FD_MD_INDEX_SIZE(0)
                   /\ HdrIndex.kind = "index"
                   /\ HdrIndex.num_entries = 0
                   /\ HdrIndex.tick_num = tick_num - 1
                   /\ Nanos(end_of_tick) =
                          now + (tick_len * nanosecs_per_tenth_sec))
    /\ [][(op = "flush" \/ op' = "flush")
             => /\ mdf_idx' = mdf_idx
                /\ mdf_idx_len' = mdf_idx_len
                /\ mdf_idx_entries_used' = mdf_idx_entries_used
                /\ shadow_defrees' = shadow_defrees
                /\ tick_num' = IF op = "flush" /\ op' = "none"
                               THEN tick_num + 1 ELSE tick_num]_vars

C20_Witness ==
    /\ pc = "idle"
    /\ last_done = "flush"
    /\ mdf_idx_entries_used >= 1
    /\ shadow_defrees # <<>>
    /\ now > ClockStart

\* the header on disk names an index block with no entries of the header's tick
EmptyIndexOnDisk ==
    /\ md_hdr.index_length = H5FD_MD_INDEX_SIZE(0)
    /\ HdrIndex.kind = "index"
    /\ HdrIndex.num_entries = 0
    /\ HdrIndex.tick_num = md_hdr.tick_num

\* C21: a close writes an index without entries and then a header without
\* entries while the shadow file is still open, closes and unlinks the file
\* after that, and leaves the deferred-free queue empty whatever the ticks of
\* the records that were on it.
C21_CloseDrains ==
    /\ [](pc = "closed" => (md_fd = "unlinked" /\ shadow_defrees = <<>>))
    /\ [][(op = "close" /\ pc' = "closed")
             => /\ md_fd = "open"
                /\ wlog = <<"index", "header">>
                /\ EmptyIndexOnDisk
                /\ md_hdr.tick_num = tick_num
                /\ md_fd' = "unlinked"
                /\ shadow_defrees' = <<>>]_vars

C21_Witness ==
    /\ pc = "closed"
    /\ last_done = "close"
    /\ md_fd = "unlinked"
    /\ replaced # {}
    /\ \A r \in replaced : r.tick_num + max_lag >= tick_num

\* the end of tick of tick 1 has written its header and one page was dirtied
FirstTickOnePage ==
    /\ op = "eot"
    /\ pc \in {"reclaim", "fin"}
    /\ tick_num = 1
    /\ Cardinality(DOMAIN tl) = 1

\* the index on disk has one entry, which is for the page of the tick list and
\* names the image written for it
OnePagePublished ==
    /\ HdrIndex.kind = "index"
    /\ HdrIndex.num_entries = 1
    /\ \A p \in DOMAIN tl :
           LET e == HdrIndex.entries[1]
           IN  /\ e.hdf5_page_offset = p
               /\ e.md_file_page_offset >= 1
               /\ e.length = EntryLength(p)
               /\ e.chksum = H5_checksum_metadata(tl[p].image)
               /\ md_file[e.md_file_page_offset] =
                      [kind |-> "image", image |-> tl[p].image]

\* C23 as stated: when one page is dirtied in tick 1, the end of tick that
\* publishes it writes a header with tick 2 and an index with one entry for
\* the page, with a shadow page >= 1, the length and the checksum of the image.
C23_OnePageHeaderTickTwo ==
    FirstTickOnePage => (md_hdr.tick_num = 2 /\ OnePagePublished)

\* C23 amended: the header carries tick 1, the tick that ends; the writer's
\* tick is 2 when the end of tick has returned.
C23_OnePageHeaderTickOne ==
    /\ FirstTickOnePage
           => (md_hdr.tick_num = 1 /\ HdrIndex.tick_num = 1 /\ OnePagePublished)
    /\ (pc = "idle" /\ last_done = "eot" /\ md_hdr.tick_num = 1) => tick_num = 2

C23_Witness ==
    /\ FirstTickOnePage
    /\ pc = "fin"
    /\ OnePagePublished
    /\ md_hdr.tick_num = 1

ClosedAtOnce ==
    /\ pc = "closed"
    /\ ndirty = 0
    /\ prep_entry.tick_num = 1

\* C24: when the writer opens and closes at once without dirtying metadata,
\* every header written names an empty index, the headers written carry tick 1
\* and then tick 2 and no other tick, and the shadow file is unlinked when the
\* close has returned.
C24_EmptySessionHeaders ==
    /\ [](ClosedAtOnce
            => /\ md_fd = "unlinked"
               /\ \A e \in published : e.entries = <<>> /\ e.tick_num \in {1, 2}
               /\ hdr_ticks[1] >= 1
               /\ hdr_ticks[2] = 1
               /\ \A t \in 3..MaxTick : hdr_ticks[t] = 0
               /\ md_hdr.tick_num = 2
               /\ md_hdr.index_length = H5FD_MD_INDEX_SIZE(0)
               /\ tick_num = 3)
    /\ [][md_hdr'.tick_num >= md_hdr.tick_num]_vars

C24_Witness ==
    /\ ClosedAtOnce
    /\ md_fd = "unlinked"
    /\ hdr_ticks[1] = 1
    /\ hdr_ticks[2] = 1
    /\ published = {[tick_num |-> 1, entries |-> <<>>],
                    [tick_num |-> 2, entries |-> <<>>]}

\* C25: when an end of tick publishes a new image for a page that has an index
\* entry, no entry is added for the page, the shadow page of the new image is
\* not the one it replaces, and the replaced range is on the deferred-free
\* queue and still allocated in the free-space manager.
C25_RewriteKeepsCountMovesImage ==
    [][/\ (pc = "idle" /\ pc' = "sort")
           => /\ idx_entries_added' =
                     Cardinality((DOMAIN tl) \
                         IndexPages(mdf_idx, mdf_idx_entries_used))
              /\ num_entries' = (IF tick_num = 1 THEN 0 ELSE mdf_idx_entries_used)
                                    + idx_entries_added'
       /\ (pc = "alloc" /\ pc' = "write" /\ mdf_idx[ix].md_file_page_offset # 0)
           => /\ mdf_idx'[ix].md_file_page_offset # mdf_idx[ix].md_file_page_offset
              /\ \E k \in 1..Len(shadow_defrees) :
                     /\ shadow_defrees[k].offset =
                            mdf_idx[ix].md_file_page_offset * fs_page_size
                     /\ shadow_defrees[k].length = mdf_idx[ix].length
                     /\ shadow_defrees[k].tick_num = tick_num
              /\ PagesOf(mdf_idx[ix].md_file_page_offset * fs_page_size,
                         mdf_idx[ix].length) \subseteq mv_alloc
       /\ (op = "eot" /\ pc = "fin" /\ pc' = "idle")
           => mdf_idx_entries_used' = mdf_idx_entries_used + idx_entries_added]_vars

C25_Witness ==
    /\ pc = "idle"
    /\ last_done = "eot"
    /\ replaced # {}
    /\ idx_entries_added = 0
    /\ mdf_idx_entries_used = 1
    /\ HdrIndex.kind = "index"
    /\ HdrIndex.num_entries = 1
    /\ \A r \in replaced :
           r.offset # HdrIndex.entries[1].md_file_page_offset * fs_page_size

\* C26: an enlargement leaves in writer_index_offset the range it allocated;
\* the next index is written at that offset and the next header names that
\* offset and the encoded length of the index written with it.
C26_EnlargedIndexPublished ==
    /\ [](  /\ (op = "eot" /\ pc = "hdr")
                => LET block == IndexAt(md_file, writer_index_offset,
                                        H5FD_MD_INDEX_SIZE(num_entries))
                   IN  /\ block.kind = "index"
                       /\ block.tick_num = tick_num
                       /\ block.num_entries = num_entries
            /\ (op = "eot" /\ pc \in {"reclaim", "fin"})
                => /\ md_hdr.index_offset = writer_index_offset
                   /\ md_hdr.index_length = H5FD_MD_INDEX_SIZE(num_entries)
                   /\ HdrIndex.kind = "index"
                   /\ HdrIndex.num_entries = num_entries)
    /\ [][(mdf_idx_len' > entries_in_index /\ mdf_idx_len' # mdf_idx_len)
             => /\ writer_index_offset' # writer_index_offset
                /\ PagesOf(writer_index_offset',
                           H5FD_MD_INDEX_SIZE(mdf_idx_len')) \cap mv_alloc = {}
                /\ PagesOf(writer_index_offset',
                           H5FD_MD_INDEX_SIZE(mdf_idx_len')) \subseteq mv_alloc']_vars

C26_Witness ==
    /\ op = "eot"
    /\ pc = "reclaim"
    /\ mdf_idx_len > entries_in_index
    /\ writer_index_offset # fs_page_size
    /\ num_entries > entries_in_index
    /\ md_hdr.index_offset = writer_index_offset
    /\ md_hdr.index_length = H5FD_MD_INDEX_SIZE(num_entries)

\* C27 as stated: for every tick_len the deadline is the clock reading plus
\* tick_len * 100,000,000 ns and the time slept on the close path is
\* tick_len * 100,000,000 ns; the conversion to nanoseconds does not wrap.
C27_TickLenNotWrapped ==
    /\ (calc_out.done /\ calc_in.fn = "deadline")
           => Nanos(calc_out.ts) =
                  calc_in.clock + (calc_in.arg * nanosecs_per_tenth_sec)
    /\ (calc_out.done /\ calc_in.fn = "sleep")
           => Nanos(calc_out.ts) = calc_in.arg * nanosecs_per_tenth_sec

\* C28 as stated: when a step of a writer end of tick has failed and the error
\* is returned, the header on disk and the index it references are still the
\* pair of the last successful publication.
C28_FailedEotLeavesPair ==
    (pc = "failed" /\ md_hdr # NoHdr) => PairPublished

\* C29: the enlarged index length is twice the old one when twice the old one
\* is at most UINT32_MAX and UINT32_MAX otherwise; it is never smaller than the
\* old length.
C29_EnlargedLengthSaturates ==
    (calc_out.done /\ calc_in.fn = "enlarge")
        => /\ calc_in.arg <= UINT32_MAX \div 2
               => calc_out.val = calc_in.arg + calc_in.arg
           /\ calc_in.arg > UINT32_MAX \div 2 => calc_out.val = UINT32_MAX
           /\ calc_out.val >= calc_in.arg
           /\ calc_out.val <= UINT32_MAX

C29_Witness ==
    /\ calc_out.done
    /\ calc_in.fn = "enlarge"
    /\ calc_in.arg > UINT32_MAX \div 2
    /\ calc_in.arg < UINT32_MAX
    /\ calc_out.val = UINT32_MAX

\* C30: in every state of the writer the deferred-free queue, walked from the
\* head to the tail, never goes up in tick_num: the oldest records are at the
\* tail.
C30_DefreesOrderedByTick ==
    \A k \in 1..(Len(shadow_defrees) - 1) :
        shadow_defrees[k].tick_num >= shadow_defrees[k + 1].tick_num

C30_Witness ==
    /\ Len(shadow_defrees) >= 2
    /\ shadow_defrees[1].tick_num > shadow_defrees[Len(shadow_defrees)].tick_num

\* C31: when the reclamation pass of a writer end of tick has finished, no
\* record with tick_num + max_lag <= current tick is left on the deferred-free
\* queue, whether the pass took the early exit or stopped at a surviving
\* record.
C31_ReclamationComplete ==
    (op = "eot" /\ pc = "fin")
        => \A k \in 1..Len(shadow_defrees) :
               shadow_defrees[k].tick_num + max_lag > tick_num

\* the pass freed a record and stopped at a surviving one
C31_Witness ==
    /\ op = "eot"
    /\ pc = "fin"
    /\ tick_num > max_lag
    /\ shadow_defrees # <<>>
    /\ \E f \in freed : f.at_tick = tick_num

\* ranges were returned to the free-space manager in the end of tick in progress
ReclaimedThisTick ==
    \E f \in freed : f.at_tick = tick_num

C33_UsedWithinLength ==
    /\ []((pc = "idle" /\ last_done = "eot")
            => /\ mdf_idx_entries_used <= mdf_idx_len
               /\ mdf_idx_len = Len(mdf_idx)
               /\ Cardinality(IndexPages(mdf_idx, mdf_idx_entries_used))
                      = mdf_idx_entries_used)
    /\ []((rpc \in {"opened", "evict", "adopt"}
              \/ (rpc = "idle" /\ r_entry.outcome \in {"new", "same"}))
            => /\ r_mdf_idx_entries_used <= r_mdf_idx_len
               /\ r_mdf_idx_len = Len(r_mdf_idx))
    /\ [](rpc \in {"opened", "evict", "adopt"}
            => r_mdf_idx_entries_used = r_vfd.idx.num_entries)
    /\ [][/\ (pc = "idle" /\ pc' = "sort")
              => idx_entries_added' =
                     Cardinality((DOMAIN tl) \
                         IndexPages(mdf_idx, mdf_idx_entries_used))
          /\ (op = "eot" /\ pc = "fin" /\ pc' = "idle")
              => /\ mdf_idx_entries_used' =
                        mdf_idx_entries_used + idx_entries_added
                 /\ DOMAIN tl \subseteq IndexPages(mdf_idx', mdf_idx_entries_used')]_vars

C33_Witness ==
    /\ pc = "idle"
    /\ last_done = "eot"
    /\ idx_entries_added > 0
    /\ mdf_idx_entries_used = mdf_idx_len
    /\ rpc = "adopt"
    /\ r_mdf_idx_entries_used = r_mdf_idx_len
    /\ r_mdf_idx_entries_used > r_old_mdf_idx_entries_used

\* C34 as stated: H5F__vfd_swmr_writer__wait_a_tick always returns; a sleep
\* that fails for a reason other than a signal is not retried but makes the
\* function return FAIL; a function that returns SUCCEED has run one end of
\* tick.
C34_WaitATickReturns ==
    /\ <>(wt.pc = "returned")
    /\ [][(wt.result = -1 /\ wt.errno # "EINTR")
             => (wt'.pc = "returned" /\ wt'.ret_value = "FAIL")]_vars
    /\ []((wt.pc = "returned" /\ wt.ret_value = "SUCCEED") => wt.eots = 1)

C36_FailedReaderEotKeepsIndexes ==
    (rpc = "idle" /\ r_entry.outcome = "failed")
        => /\ r_tick_num = r_entry.tick_num
           /\ r_mdf_idx = r_entry.mdf_idx
           /\ r_mdf_idx_len = r_entry.mdf_idx_len
           /\ r_mdf_idx_entries_used = r_entry.mdf_idx_entries_used
           /\ r_old_mdf_idx = r_entry.old_mdf_idx
           /\ r_old_mdf_idx_len = r_entry.old_mdf_idx_len
           /\ r_old_mdf_idx_entries_used = r_entry.old_mdf_idx_entries_used

\* C37 as stated: a writer or reader end of tick that returns success puts its
\* file back on the EOT queue with a deadline computed in that call, the
\* monotonic time read in the call plus tick_len, which is strictly later than
\* a deadline that had expired; it never re-queues the expired deadline.
C37_RequeuedWithNewDeadline ==
    [][\A f \in Files :
          (eot_last'.file = f /\ eot_last'.op \in {"writer_eot", "reader_eot"})
              => \E k \in 1..Len(eot_queue_g') :
                     /\ eot_queue_g'[k].vfd_swmr_file = f
                     /\ eot_queue_g'[k].end_of_tick =
                            new_end_of_tick(Timespec(now'), eot_files[f].tick_len)
                     /\ timespeccmp_le(eot_files[f].end_of_tick, Timespec(now'))
                            => ~timespeccmp_le(eot_queue_g'[k].end_of_tick,
                                               eot_files[f].end_of_tick)]_vars

\* number of entries of file f on the EOT queue
EotEntries(q, f) ==
    Cardinality({ k \in 1..Len(q) : q[k].vfd_swmr_file = f })

\* no file has two entries and every entry carries the tick and the end of
\* tick of its file
EotQueueMatchesFiles(q, files) ==
    /\ \A f \in Files : EotEntries(q, f) <= 1
    /\ \A k \in 1..Len(q) :
           /\ q[k].tick_num = files[q[k].vfd_swmr_file].tick_num
           /\ q[k].end_of_tick = files[q[k].vfd_swmr_file].end_of_tick

\* C38: once every open file has been inserted once, a successful writer or
\* reader end of tick and a removal keep the EOT queue with at most one entry
\* per file, each with the tick and the end of tick of its file; the file of
\* the end of tick has exactly one entry after it as before it, a removed file
\* has none, and the removal of a file that has no entry leaves the contents
\* and the order of the queue unchanged.
C38_OneEntryPerFile ==
    [][\A f \in Files :
          /\ (eot_last'.file = f /\ eot_last'.op = "insert"
                  /\ EotEntries(eot_queue_g, f) = 0
                  /\ EotQueueMatchesFiles(eot_queue_g, eot_files))
                 => /\ EotQueueMatchesFiles(eot_queue_g', eot_files')
                    /\ EotEntries(eot_queue_g', f) = 1
          /\ (eot_last'.file = f /\ eot_last'.op \in {"writer_eot", "reader_eot"}
                  /\ EotQueueMatchesFiles(eot_queue_g, eot_files))
                 => /\ EotQueueMatchesFiles(eot_queue_g', eot_files')
                    /\ EotEntries(eot_queue_g, f) = 1
                    /\ EotEntries(eot_queue_g', f) = 1
                    /\ Len(eot_queue_g') = Len(eot_queue_g)
          /\ (eot_last'.file = f /\ eot_last'.op = "remove"
                  /\ EotQueueMatchesFiles(eot_queue_g, eot_files))
                 => /\ EotQueueMatchesFiles(eot_queue_g', eot_files')
                    /\ EotEntries(eot_queue_g', f) = 0
                    /\ \A h \in Files \ {f} :
                           EotEntries(eot_queue_g', h) = EotEntries(eot_queue_g, h)
          /\ (eot_last'.file = f /\ eot_last'.op = "remove"
                  /\ EotEntries(eot_queue_g, f) = 0)
                 => eot_queue_g' = eot_queue_g]_vars

C38_Witness ==
    /\ eot_last.op \in {"writer_eot", "reader_eot"}
    /\ EotQueueMatchesFiles(eot_queue_g, eot_files)
    /\ \A f \in Files : eot_files[f].open /\ EotEntries(eot_queue_g, f) = 1
    /\ \E f \in Files : eot_files[f].tick_num > 1
    /\ eot_queue_g[1].vfd_swmr_file = eot_last.file

\* C39: the writer's tick is 1 after H5F_vfd_swmr_init, never decreases, grows
\* by exactly 1 in the last step of a successful end of tick, of a flush and of
\* the close, and stays as it is in every other step, a failed publication
\* included; a header write carries the writer's tick, which is not smaller
\* than the tick of the header it replaces; the reader's tick never decreases.
C39_TicksMonotonic ==
    [][/\ tick_num' >= tick_num
       /\ (pc = "start" /\ pc' # pc) => tick_num' = 1
       /\ (pc = "fin" /\ pc' # pc /\ op \in {"eot", "flush", "close"})
              => tick_num' = tick_num + 1
       /\ ~(pc \in {"start", "fin"} /\ pc' # pc /\ op # "init")
              => tick_num' = tick_num
       /\ pc' = "failed" => (tick_num' = tick_num /\ hdr_ticks' = hdr_ticks)
       /\ hdr_ticks' # hdr_ticks
              => /\ md_hdr'.tick_num = tick_num
                 /\ md_hdr # NoHdr => md_hdr'.tick_num >= md_hdr.tick_num
       /\ r_tick_num' >= r_tick_num]_vars

C39_Witness ==
    /\ pc = "failed"
    /\ tick_num = 3
    /\ last_done = "eot"
    /\ hdr_ticks[1] > 0
    /\ hdr_ticks[2] > 0
    /\ r_tick_num = 2
    /\ r_entry.outcome = "new"

\* C40 as stated: in every sequence of open, end of tick (one retried after a
\* failure included), flush and delay predicate, the index exists whenever the
\* writer's tick is greater than 1 (the assertion of the delay predicate), and
\* an end of tick of tick 1 creates the index when there is none: mdf_idx NULL,
\* length 0, used 0 (the assertions of the index creation).
C40_IndexAssertionsHold ==
    /\ []((pc = "idle" /\ tick_num > 1) => mdf_idx # <<>>)
    /\ [][(pc = "idle" /\ op' = "eot" /\ tick_num = 1)
             => (mdf_idx = <<>> /\ mdf_idx_len = 0 /\ mdf_idx_entries_used = 0)]_vars

====
